---- MODULE Spec2Model ----
(***************************************************************************)
(* Simulation harness and metrics reconciliation of the nomad simulator    *)
(* command: SimCommand.Run launches one goroutine per job, each of which   *)
(* registers its job, runs the scheduler under a global mutex against the  *)
(* SimHarness, builds a SimSnapshot and sends it on an unbuffered channel  *)
(* to the metrics loop, which calls getMetrics on it.                      *)
(***************************************************************************)
EXTENDS Integers, Sequences, FiniteSets, Bags, TLC

(***************************************************************************)
(* Bounds of the model.                                                    *)
(***************************************************************************)
NumJobs == 2
NumNodes == 2
MaxCount == 2

JobIDs == 1..NumJobs
NodeIDs == 1..NumNodes

\* NodeID of an allocation that was not placed (the empty string in Go).
NoNode == 0

JobTypeSystem == "system"
JobTypeBatch == "batch"
JobTypeService == "service"
JobTypes == {JobTypeSystem, JobTypeBatch, JobTypeService}

AllocDesiredStatusRun == "run"
AllocDesiredStatusFailed == "failed"

(***************************************************************************)
(* Resource model.                                                         *)
(***************************************************************************)
SimResources(cpu, mem, disk, iops) ==
    [CPU |-> cpu, MemoryMB |-> mem, DiskMB |-> disk, IOPS |-> iops]

\* The node files, one per path of the node list, in HCL and in JSON: the
\* ID the operator wrote (IDs are numbers here; the files declare the IDs
\* above NumNodes), total and reserved resources.
NodeFiles(n) ==
    [Extension |-> IF n % 2 = 1 THEN ".hcl" ELSE ".json",
     ID |-> NumNodes + n,
     Resources |-> SimResources(IF n = 1 THEN 3 ELSE 2, 4, 2, 2),
     Reserved |-> SimResources(1, 1, 0, 0)]

\* parseHCL: hcl.Parse and hcl.DecodeObject into a NodeConfig, field by tag.
parseHCL(c) == [ID |-> c.ID, Resources |-> c.Resources, Reserved |-> c.Reserved]

\* parseJSON: json.Unmarshal into a NodeConfig, field by tag.
parseJSON(c) == [ID |-> c.ID, Resources |-> c.Resources, Reserved |-> c.Reserved]

\* structs.GenerateUUID, called for the n-th node file: a random identifier,
\* distinct from call to call and from every ID a file declares.
GenerateUUID(n) == n

\* ConvertNode: ID: structs.GenerateUUID(), the other fields from the
\* NodeConfig.
ConvertNode(config, uuid) ==
    [ID |-> uuid,
     Resources |-> SimResources(config.Resources.CPU, config.Resources.MemoryMB,
                                config.Resources.DiskMB, config.Resources.IOPS),
     Reserved |-> SimResources(config.Reserved.CPU, config.Reserved.MemoryMB,
                               config.Reserved.DiskMB, config.Reserved.IOPS)]

\* LoadNodeFile: the parser is chosen by the extension of the path, and the
\* NodeConfig is converted to a node.
LoadNodeFile(n) ==
    ConvertNode(IF NodeFiles(n).Extension = ".hcl" THEN parseHCL(NodeFiles(n))
                ELSE parseJSON(NodeFiles(n)),
                GenerateUUID(n))

\* The job files: task group names are unique in a job.
JobFiles ==
    <<[Type |-> JobTypeService,
       TaskGroups |-> <<[Name |-> "web", Count |-> MaxCount,
                         Resources |-> SimResources(1, 1, 1, 0)],
                        [Name |-> "db", Count |-> 1,
                         Resources |-> SimResources(2, 1, 0, 1)]>>],
      [Type |-> JobTypeSystem,
       TaskGroups |-> <<[Name |-> "web", Count |-> 1,
                         Resources |-> SimResources(1, 1, 1, 0)]>>],
      [Type |-> JobTypeBatch,
       TaskGroups |-> <<[Name |-> "web", Count |-> 1,
                         Resources |-> SimResources(2, 1, 0, 1)]>>]>>

\* jobspec.ParseFile: the jobs the job file of job ID j may hold.
ParseFile(j) ==
    {[ID |-> j, Type |-> JobFiles[f].Type, TaskGroups |-> JobFiles[f].TaskGroups] :
        f \in {((j - 1) % 3) + 1, (j % 3) + 1}}

\* time.Now().UnixNano() as read by the goroutine of job j.
UnixNano(j) == 10 * j

VARIABLES
    args,            \* Run: the flags parsed from args (nodeList, jobList)
    jobs,            \* Run: jobs, the parsed job of every job ID
    mainpc,          \* Run: position of the main goroutine
    nodeIDs,         \* Run: nodeIDs, appended as the nodes are upserted
    pc,              \* position of every job goroutine
    startTimestamp,  \* goroutine local: startTimestamp
    index,           \* goroutine local: the index NextIndex returned
    mutex,           \* Run: mutex, 0 when free, else the holder
    planLock,        \* SimHarness.planLock, 0 when free, else the holder
    nextIndexLock,   \* SimHarness.nextIndexLock, 0 when free, else the holder
    nextIndex,       \* SimHarness.nextIndex
    Plans,           \* SimHarness.Plans
    Evals,           \* SimHarness.Evals
    CreateEvals,     \* SimHarness.CreateEvals
    stateNodes,      \* SimHarness.State: nodes table
    stateJobs,       \* SimHarness.State: jobs table
    stateAllocs,     \* SimHarness.State: allocs table
    stateIndex,      \* SimHarness.State: index table, the last version of every table
    plan,            \* scheduler: the plan being submitted
    result,          \* scheduler: the PlanResult SubmitPlan returned
    simSnapshot,     \* goroutine local: the SimSnapshot built
    invoked,         \* per job, the calls of h.Process made by its goroutine
    snapshot,        \* metrics loop: the snapshot received
    jobEvaluations,  \* Run: jobEvaluations
    outputNodes,     \* Run: outputNodes
    simOutput,       \* Run: the document written to outFile
    killpc,          \* hookliftHandle.Kill: position of the caller
    runpc,           \* hookliftHandle.run: position of the goroutine
    doneCh,          \* hookliftHandle.doneCh: "nil", "open" or "closed"
    timer,           \* the channel of time.After(h.killTimeout)
    ps,              \* run: what h.executor.Wait() returned
    waitCh,          \* hookliftHandle.waitCh
    calls,           \* the calls received by the executor and the plugin client
    killReturn       \* what Kill returned

vars == <<args, jobs, mainpc, nodeIDs, pc, startTimestamp, index,
          mutex, planLock, nextIndexLock, nextIndex, Plans, Evals, CreateEvals, stateNodes,
          stateJobs, stateAllocs, stateIndex, plan, result, simSnapshot,
          invoked, snapshot,
          jobEvaluations, outputNodes, simOutput,
          killpc, runpc, doneCh, timer, ps, waitCh, calls, killReturn>>

harnessVars == <<planLock, nextIndexLock, nextIndex, Plans, Evals, CreateEvals>>
storeVars == <<stateNodes, stateJobs, stateAllocs, stateIndex>>
mainVars == <<mainpc, nodeIDs, snapshot, jobEvaluations, outputNodes, simOutput>>
localVars == <<startTimestamp, index, plan, result, simSnapshot, invoked>>
handleVars == <<killpc, runpc, doneCh, timer, ps, waitCh, calls, killReturn>>
simulatorVars == <<args, jobs, mainVars, pc, mutex, harnessVars, storeVars, localVars>>

NoSnapshot == [Eval |-> [ID |-> 0, JobID |-> 0], Plans |-> <<>>, NodeIDs |-> <<>>, Time |-> 0]
NoResult == [AllocIndex |-> 0, NodeAllocation |-> <<>>]
NoPlan == [EvalID |-> 0, NodeAllocation |-> [n \in NodeIDs |-> <<>>], FailedAllocs |-> <<>>]

\* The evaluation a job goroutine creates for its job (a fresh ID per job).
Evaluation(j) == [ID |-> NumJobs + j, JobID |-> j]

NewSchedulerService(type) ==
    "NewServiceScheduler"

\* switch job.Type: the scheduler factory handed to h.Process, "" when no
\* case matches and no scheduler is called.
NewScheduler(type) ==
    CASE type = JobTypeSystem -> "NewSystemScheduler"
      [] type = JobTypeBatch -> "NewBatchScheduler"
      [] type = JobTypeService -> "NewServiceScheduler"
      [] OTHER -> ""

\* h.Process(factory, eval) as the goroutine of job j calls it
Invocation(j) ==
    [Eval |-> Evaluation(j).ID, Scheduler |-> NewScheduler(jobs[j].Type)]


(***************************************************************************)
(* State container queries.                                                *)
(***************************************************************************)
\* StateStore.AllocsByNode: every allocation recorded against the node.
AllocsByNode(allocs, nodeID) == {a \in allocs : a.NodeID = nodeID}

\* StateStore.UpsertAllocs: insert, or replace the allocation of the same ID.
UpsertAllocs(allocs, new) ==
    {a \in allocs : \A b \in new : b.ID # a.ID} \cup new

\* One iteration of the loop of getAvailable.
Subtract(available, resources) ==
    [CPU |-> available.CPU - resources.CPU,
     MemoryMB |-> available.MemoryMB - resources.MemoryMB,
     DiskMB |-> available.DiskMB - resources.DiskMB,
     IOPS |-> available.IOPS - resources.IOPS]

RECURSIVE SubtractAllTwice(_, _)
SubtractAllTwice(available, allocations) ==
    IF allocations = {} THEN available
    ELSE LET allocation == CHOOSE a \in allocations : TRUE
         IN SubtractAllTwice(
                Subtract(Subtract(available, allocation.Resources),
                         allocation.Resources),
                allocations \ {allocation})

RECURSIVE SubtractAll(_, _)
SubtractAll(available, allocations) ==
    IF allocations = {} THEN available
    ELSE LET allocation == CHOOSE a \in allocations : TRUE
         IN SubtractAll(Subtract(available, allocation.Resources),
                        allocations \ {allocation})

getAvailableOfTotal(node, allocs) ==
    SubtractAll(node.Resources, AllocsByNode(allocs, node.ID))

\* getAvailable: total minus reserved minus every allocation of the node.
getAvailable(node, allocs) ==
    SubtractAll(Subtract(node.Resources, node.Reserved),
                AllocsByNode(allocs, node.ID))

(***************************************************************************)
(* Projections to the metrics view.                                        *)
(***************************************************************************)
RECURSIVE TaskGroupNamesOf(_)
TaskGroupNamesOf(taskGroups) ==
    IF taskGroups = <<>> THEN <<>>
    ELSE <<Head(taskGroups).Name>> \o TaskGroupNamesOf(Tail(taskGroups))

\* ParseJobMetrics leaves both timestamps at their zero value.
ParseJobMetrics(job) ==
    [ID |-> job.ID, Type |-> job.Type,
     TaskGroups |-> TaskGroupNamesOf(job.TaskGroups),
     StartTimestamp |-> 0, FinalTimestamp |-> 0]

ParseAllocMetrics(alloc) ==
    [NodeID |-> alloc.NodeID, JobID |-> alloc.JobID,
     TaskGroup |-> alloc.TaskGroup,
     AllocationTime |-> alloc.AllocationTime,
     DesiredStatus |-> alloc.DesiredStatus,
     Resources |-> SimResources(alloc.Resources.CPU, alloc.Resources.MemoryMB,
                                alloc.Resources.DiskMB, alloc.Resources.IOPS)]

RECURSIVE ParseAll(_)
ParseAll(allocList) ==
    IF allocList = <<>> THEN <<>>
    ELSE <<ParseAllocMetrics(Head(allocList))>> \o ParseAll(Tail(allocList))

\* A list filled by a range loop over a map has no specified order: it is
\* kept as the bag of its elements.
RECURSIVE SeqToBag(_)
SeqToBag(list) ==
    IF list = <<>> THEN EmptyBag
    ELSE SetToBag({Head(list)}) (+) SeqToBag(Tail(list))

\* The keys of NodeAllocation, in the order the fold below visits them.
RECURSIVE NodeOrder(_)
NodeOrder(n) == IF n = 0 THEN <<>> ELSE Append(NodeOrder(n - 1), n)

(***************************************************************************)
(* getMetrics.                                                             *)
(***************************************************************************)
\* The loop over plan.NodeAllocation: the allocations of the plan, node by
\* node in the order the map is visited.
RECURSIVE PlanAllocs(_, _)
PlanAllocs(p, order) ==
    IF order = <<>> THEN <<>>
    ELSE p.NodeAllocation[Head(order)] \o PlanAllocs(p, Tail(order))

RECURSIVE MaxAllocTime(_, _)
MaxAllocTime(parsed, maxAllocTime) ==
    IF parsed = <<>> THEN maxAllocTime
    ELSE MaxAllocTime(Tail(parsed),
                      IF maxAllocTime < Head(parsed).AllocationTime
                      THEN Head(parsed).AllocationTime ELSE maxAllocTime)

TotalCountDeclared(job, taskGroup, ids) == taskGroup.Count

\* totalCount of a task group: its count, times the nodes for a system job.
TotalCount(job, taskGroup, ids) ==
    IF job.Type = JobTypeSystem THEN taskGroup.Count * Len(ids)
    ELSE taskGroup.Count

SuccessCountAny(allocList, name) == Len(allocList)

\* successCount: the allocations of the plan that belong to the task group.
RECURSIVE SuccessCount(_, _)
SuccessCount(allocList, name) ==
    IF allocList = <<>> THEN 0
    ELSE (IF Head(allocList).TaskGroup = name THEN 1 ELSE 0)
         + SuccessCount(Tail(allocList), name)

RECURSIVE CopiesInclusive(_, _)
CopiesInclusive(failedCount, m) ==
    IF failedCount < 0 THEN <<>>
    ELSE <<m>> \o CopiesInclusive(failedCount - 1, m)

\* for i := 0; i < failedCount; i++ { append(failedAllocsMetrics, ...) }
RECURSIVE Copies(_, _)
Copies(failedCount, m) ==
    IF failedCount <= 0 THEN <<>> ELSE <<m>> \o Copies(failedCount - 1, m)

FailedForTaskGroupAnyName(p, failedAlloc, taskGroup, ids) ==
    LET totalCount == TotalCount(failedAlloc.Job, taskGroup, ids)
    IN IF totalCount = 1
       THEN <<ParseAllocMetrics(failedAlloc)>>
       ELSE Copies(totalCount
                     - SuccessCount(PlanAllocs(p, ids), failedAlloc.TaskGroup),
                   ParseAllocMetrics(failedAlloc))

\* The records one failed allocation contributes for one task group of its job.
FailedForTaskGroup(p, failedAlloc, taskGroup, ids) ==
    IF taskGroup.Name # failedAlloc.TaskGroup THEN <<>>
    ELSE LET totalCount == TotalCount(failedAlloc.Job, taskGroup, ids)
         IN IF totalCount = 1
            THEN <<ParseAllocMetrics(failedAlloc)>>
            ELSE Copies(totalCount
                          - SuccessCount(PlanAllocs(p, ids), failedAlloc.TaskGroup),
                        ParseAllocMetrics(failedAlloc))

RECURSIVE FailedForAlloc(_, _, _, _)
FailedForAlloc(p, failedAlloc, taskGroups, ids) ==
    IF taskGroups = <<>> THEN <<>>
    ELSE FailedForTaskGroup(p, failedAlloc, Head(taskGroups), ids)
         \o FailedForAlloc(p, failedAlloc, Tail(taskGroups), ids)

RECURSIVE FailedForPlan(_, _, _)
FailedForPlan(p, failedAllocs, ids) ==
    IF failedAllocs = <<>> THEN <<>>
    ELSE FailedForAlloc(p, Head(failedAllocs), Head(failedAllocs).Job.TaskGroups, ids)
         \o FailedForPlan(p, Tail(failedAllocs), ids)

MetricsOfPlanAnyEval(m, p, snap) ==
    LET parsed == ParseAll(PlanAllocs(p, NodeOrder(NumNodes)))
        maxAllocTime == MaxAllocTime(parsed, -1)
    IN [m EXCEPT
          !.SuccessfulAllocsMetrics = @ (+) SeqToBag(parsed),
          !.JobMetrics.StartTimestamp = snap.Time,
          !.JobMetrics.FinalTimestamp =
              IF maxAllocTime # -1 THEN snap.Time + maxAllocTime ELSE -1,
          !.FailedAllocsMetrics =
              @ \o FailedForPlan(p, p.FailedAllocs, snap.NodeIDs)]

\* The body of the loop over simSnapshot.Plans for one plan; m is the record
\* accumulated so far.
MetricsOfPlan(m, p, snap) ==
    IF p.EvalID # snap.Eval.ID THEN m
    ELSE LET parsed == ParseAll(PlanAllocs(p, NodeOrder(NumNodes)))
             maxAllocTime == MaxAllocTime(parsed, -1)
         IN [m EXCEPT
               !.SuccessfulAllocsMetrics = @ (+) SeqToBag(parsed),
               !.JobMetrics.StartTimestamp = snap.Time,
               !.JobMetrics.FinalTimestamp =
                   IF maxAllocTime # -1 THEN snap.Time + maxAllocTime ELSE -1,
               !.FailedAllocsMetrics =
                   @ \o FailedForPlan(p, p.FailedAllocs, snap.NodeIDs)]

RECURSIVE MetricsOfPlans(_, _, _)
MetricsOfPlans(m, plans, snap) ==
    IF plans = <<>> THEN m
    ELSE MetricsOfPlans(MetricsOfPlan(m, Head(plans), snap), Tail(plans), snap)

ChangedNodesAll(successful) == NodeIDs

\* changedNodes: the node IDs of the successful allocations, each once.
ChangedNodes(successful) == {a.NodeID : a \in BagToSet(successful)}

\* The loop over changedNodes: one NodeUsageChange per key of the map.
NodeUsageChanges(changedNodes, nodes, allocs) ==
    SetToBag({[ID |-> nodes[nodeID].ID,
               Available |-> getAvailable(nodes[nodeID], allocs)] :
                  nodeID \in changedNodes})

\* getMetrics(simSnapshot): nodes, jobsTable and allocs are the tables of
\* simSnapshot.State when the function runs.
getMetrics(snap, nodes, jobsTable, allocs) ==
    LET m == MetricsOfPlans(
                [JobMetrics |-> ParseJobMetrics(jobsTable[snap.Eval.JobID]),
                 NodeUsageChanges |-> EmptyBag,
                 FailedAllocsMetrics |-> <<>>,
                 SuccessfulAllocsMetrics |-> EmptyBag],
                snap.Plans, snap)
    IN [m EXCEPT !.NodeUsageChanges =
            NodeUsageChanges(ChangedNodes(m.SuccessfulAllocsMetrics), nodes, allocs)]

(***************************************************************************)
(* The scheduler: an external component that reads the state snapshot it   *)
(* was created with and submits at most one plan for the evaluation.       *)
(***************************************************************************)
\* Replicas of a task group the scheduler tries to place: one set per node
\* for a system job.
Desired(job, taskGroup) ==
    IF job.Type = JobTypeSystem THEN taskGroup.Count * NumNodes
    ELSE taskGroup.Count

\* placement[t][n]: replicas of task group t placed on node n.
Placements(job) ==
    [DOMAIN job.TaskGroups -> [NodeIDs -> 0..MaxCount]]

Placed(job, placement, t) ==
    LET RECURSIVE Sum(_)
        Sum(n) == IF n = 0 THEN 0 ELSE placement[t][n] + Sum(n - 1)
    IN Sum(NumNodes)

\* What a placement asks of node n in one dimension.
Asked(job, placement, n, dim) ==
    LET RECURSIVE Sum(_)
        Sum(t) == IF t = 0 THEN 0
                  ELSE placement[t][n] * job.TaskGroups[t].Resources[dim] + Sum(t - 1)
    IN Sum(Len(job.TaskGroups))

\* The four fields of structs.Resources.
Dimensions == {"CPU", "MemoryMB", "DiskMB", "IOPS"}

\* The placement fits in what the scheduler's snapshot shows as available.
Fits(job, placement, snapAllocs) ==
    \A n \in NodeIDs : \A dim \in Dimensions :
        Asked(job, placement, n, dim) <= getAvailable(LoadNodeFile(n), snapAllocs)[dim]

Feasible(job, placement, snapAllocs) ==
    /\ \A t \in DOMAIN job.TaskGroups :
          /\ Placed(job, placement, t) <= Desired(job, job.TaskGroups[t])
          /\ job.Type = JobTypeSystem =>
                \A n \in NodeIDs : placement[t][n] <= job.TaskGroups[t].Count
    /\ Fits(job, placement, snapAllocs)

NewAllocation(job, evalID, t, n, k) ==
    [ID |-> <<job.ID, t, n, k>>, EvalID |-> evalID, JobID |-> job.ID,
     Job |-> job, NodeID |-> n, TaskGroup |-> job.TaskGroups[t].Name,
     Resources |-> job.TaskGroups[t].Resources,
     AllocationTime |-> t + n + k - 2,
     DesiredStatus |-> IF n = NoNode THEN AllocDesiredStatusFailed
                       ELSE AllocDesiredStatusRun]

RECURSIVE NodeAllocationOf(_, _, _, _, _)
NodeAllocationOf(job, evalID, placement, n, t) ==
    IF t > Len(job.TaskGroups) THEN <<>>
    ELSE [k \in 1..placement[t][n] |-> NewAllocation(job, evalID, t, n, k)]
         \o NodeAllocationOf(job, evalID, placement, n, t + 1)

\* One failed allocation per task group that has a replica left unplaced.
RECURSIVE FailedAllocsOf(_, _, _, _)
FailedAllocsOf(job, evalID, placement, t) ==
    IF t > Len(job.TaskGroups) THEN <<>>
    ELSE (IF Placed(job, placement, t) < Desired(job, job.TaskGroups[t])
          THEN <<NewAllocation(job, evalID, t, NoNode, 0)>> ELSE <<>>)
         \o FailedAllocsOf(job, evalID, placement, t + 1)

MakePlan(job, evalID, placement) ==
    [EvalID |-> evalID,
     NodeAllocation |-> [n \in NodeIDs |-> NodeAllocationOf(job, evalID, placement, n, 1)],
     FailedAllocs |-> FailedAllocsOf(job, evalID, placement, 1)]

\* Plan.IsNoOp
IsNoOp(p) ==
    /\ \A n \in NodeIDs : p.NodeAllocation[n] = <<>>
    /\ p.FailedAllocs = <<>>

Range(f) == {f[i] : i \in DOMAIN f}

\* SubmitPlan: node allocations and failed allocations flattened to one list.
Flatten(p) ==
    UNION {Range(p.NodeAllocation[n]) : n \in NodeIDs} \cup Range(p.FailedAllocs)

NoProcessState == [ExitCode |-> 0, Err |-> "nil"]

\* The simulator starts no task: there is no handle, and nothing of a handle
\* ever moves.
NoHandle ==
    /\ killpc = "idle"
    /\ runpc = "idle"
    /\ doneCh = "nil"
    /\ timer = "unset"
    /\ ps = NoProcessState
    /\ waitCh = [buf |-> <<>>, closed |-> FALSE]
    /\ calls = <<>>
    /\ killReturn = "none"

(***************************************************************************)
(* Initial state: the flags were parsed, the node and job files loaded and *)
(* the harness created (NewSimHarness: nextIndex = 1, empty state store).  *)
(***************************************************************************)
Init ==
    /\ args \in [nodeList : {"", "nodes.list"}, jobList : {"", "jobs.list"}]
    /\ NoHandle
    /\ jobs \in {f \in [JobIDs -> UNION {ParseFile(j) : j \in JobIDs}] :
                    \A j \in JobIDs : f[j] \in ParseFile(j)}
    /\ mainpc = "flags"
    /\ nodeIDs = <<>>
    /\ pc = [j \in JobIDs |-> "idle"]
    /\ startTimestamp = [j \in JobIDs |-> 0]
    /\ index = [j \in JobIDs |-> 0]
    /\ mutex = 0
    /\ planLock = 0
    /\ nextIndexLock = 0
    /\ nextIndex = 1
    /\ Plans = <<>>
    /\ Evals = <<>>
    /\ CreateEvals = <<>>
    /\ stateNodes = <<>>
    /\ stateJobs = <<>>
    /\ stateAllocs = {}
    /\ stateIndex = [nodes |-> 0, jobs |-> 0, allocs |-> 0]
    /\ plan = [j \in JobIDs |-> NoPlan]
    /\ result = [j \in JobIDs |-> NoResult]
    /\ simSnapshot = [j \in JobIDs |-> NoSnapshot]
    /\ invoked = [j \in JobIDs |-> <<>>]
    /\ snapshot = NoSnapshot
    /\ jobEvaluations = <<>>
    /\ outputNodes = <<>>
    /\ simOutput = <<>>

NextIndexKeep(current) == [idx |-> current, nextIndex |-> current]

\* NextIndex, under nextIndexLock: idx := h.nextIndex; h.nextIndex += 1;
\* return idx.  The value returned and the counter left behind.
NextIndex(current) == [idx |-> current, nextIndex |-> current + 1]

NextIndexLockPlan == planLock

\* NextIndex: h.nextIndexLock.Lock(); defer h.nextIndexLock.Unlock().  The one
\* lock the call takes; the call returns within the step that makes it, so a
\* caller waits only while the lock is held.
NextIndexLock == nextIndexLock

\* A panic of any goroutine (noErr) ends the whole program.
Running == mainpc # "panic"

(***************************************************************************)
(* The main goroutine of Run.                                              *)
(***************************************************************************)
ParseFlagsNodeListOnly ==
    /\ mainpc = "flags"
    /\ mainpc' = IF args.nodeList = "" THEN "return1" ELSE "load"
    /\ UNCHANGED <<args, handleVars, jobs, nodeIDs, pc, mutex, harnessVars, storeVars,
                   localVars, snapshot, jobEvaluations, outputNodes, simOutput>>

\* flags.Parse(args); if nodeListPath != "" {...} else { return 1 };
\* if jobListPath != "" {...} else { return 1 }
ParseFlags ==
    /\ mainpc = "flags"
    /\ mainpc' = IF args.nodeList = "" \/ args.jobList = ""
                  THEN "return1" ELSE "load"
    /\ UNCHANGED <<args, handleVars, jobs, nodeIDs, pc, mutex, harnessVars, storeVars,
                   localVars, snapshot, jobEvaluations, outputNodes, simOutput>>

\* The loops over nodesPaths and jobsPaths (LoadNodeFile, jobspec.ParseFile)
\* when every file loads; then h := NewSimHarness(); mutex := &sync.Mutex{}.
\* The harness starts with an empty state container, empty histories and
\* nextIndex 1, the values its variables have had since Init.
LoadFiles ==
    /\ mainpc = "load"
    /\ mainpc' = "nodes"
    /\ UNCHANGED <<args, handleVars, jobs, nodeIDs, pc, mutex, harnessVars, storeVars,
                   localVars, snapshot, jobEvaluations, outputNodes, simOutput>>

\* The same loops when a file fails to load: c.Ui.Error(...); return 1
LoadError ==
    /\ mainpc = "load"
    /\ mainpc' = "return1"
    /\ UNCHANGED <<args, handleVars, jobs, nodeIDs, pc, mutex, harnessVars, storeVars,
                   localVars, snapshot, jobEvaluations, outputNodes, simOutput>>

\* for _, node := range nodes { noErr(h.State.UpsertNode(h.NextIndex(), node)) }
UpsertNode ==
    /\ mainpc = "nodes"
    /\ NextIndexLock = 0
    /\ LET n == Len(nodeIDs) + 1
       IN /\ nextIndex' = NextIndex(nextIndex).nextIndex
          /\ stateNodes' = Append(stateNodes, LoadNodeFile(n))
          /\ stateIndex' = [stateIndex EXCEPT !.nodes = NextIndex(nextIndex).idx]
          /\ nodeIDs' = Append(nodeIDs, n)
          /\ mainpc' = IF n = NumNodes THEN "launch" ELSE "nodes"
    /\ UNCHANGED <<args, handleVars, jobs, pc, mutex, planLock, nextIndexLock, Plans, Evals,
                   CreateEvals, stateJobs, stateAllocs, localVars, snapshot,
                   jobEvaluations, outputNodes, simOutput>>

\* parseNode
parseNode(node) ==
    [ID |-> node.ID,
     Resources |-> SimResources(node.Resources.CPU, node.Resources.MemoryMB,
                                node.Resources.DiskMB, node.Resources.IOPS),
     Reserved |-> SimResources(node.Reserved.CPU, node.Reserved.MemoryMB,
                               node.Reserved.DiskMB, node.Reserved.IOPS)]

\* for _, job := range jobs { go func(job) {...}(job) }: the goroutines are
\* started (one that is started late is one whose first step comes late);
\* then the roster loop over nodeIDs fills outputNodes.
Launch ==
    /\ mainpc = "launch"
    /\ pc' = [j \in JobIDs |-> "start"]
    /\ outputNodes' = [i \in DOMAIN nodeIDs |-> parseNode(stateNodes[nodeIDs[i]])]
    /\ mainpc' = "recv"
    /\ UNCHANGED <<args, handleVars, jobs, nodeIDs, mutex, harnessVars, storeVars, localVars,
                   snapshot, jobEvaluations, simOutput>>

\* snapshot := <-snapshotChan, meeting the send of goroutine j.
Receive(j) ==
    /\ mainpc = "recv"
    /\ pc[j] = "send"
    /\ snapshot' = simSnapshot[j]
    /\ simSnapshot' = [simSnapshot EXCEPT ![j] = NoSnapshot]
    /\ pc' = [pc EXCEPT ![j] = "exit"]
    /\ mainpc' = "metrics"
    /\ UNCHANGED <<args, handleVars, jobs, nodeIDs, mutex, harnessVars, storeVars,
                   startTimestamp, index, plan, result, jobEvaluations,
                   outputNodes, simOutput, invoked>>

GetMetricsShort ==
    /\ mainpc = "metrics"
    /\ jobEvaluations' = Append(jobEvaluations,
            getMetrics(snapshot, stateNodes, stateJobs, stateAllocs))
    /\ snapshot' = NoSnapshot
    /\ mainpc' = IF Len(jobEvaluations) + 1 >= NumJobs - 1 THEN "write" ELSE "recv"
    /\ UNCHANGED <<args, handleVars, jobs, nodeIDs, pc, mutex, harnessVars,
                   storeVars, localVars, outputNodes, simOutput>>

GetMetricsInPlace ==
    /\ mainpc = "metrics"
    /\ LET record == getMetrics(snapshot, stateNodes, stateJobs, stateAllocs)
           changes == BagToSet(record.NodeUsageChanges)
       IN /\ jobEvaluations' = Append(jobEvaluations, record)
          /\ stateNodes' = [n \in DOMAIN stateNodes |->
                IF \E u \in changes : u.ID = n
                THEN [stateNodes[n] EXCEPT !.Resources =
                         (CHOOSE u \in changes : u.ID = n).Available]
                ELSE stateNodes[n]]
    /\ snapshot' = NoSnapshot
    /\ mainpc' = IF Len(jobEvaluations) + 1 = NumJobs THEN "write" ELSE "recv"
    /\ UNCHANGED <<args, handleVars, jobs, nodeIDs, pc, mutex, harnessVars, stateJobs,
                   stateAllocs, stateIndex, localVars, outputNodes, simOutput>>

\* for iteration := 0; iteration < len(jobs); iteration++ {
\*     jobEvaluations = append(jobEvaluations, getMetrics(<-snapshotChan)) }
GetMetrics ==
    /\ mainpc = "metrics"
    /\ jobEvaluations' = Append(jobEvaluations,
            getMetrics(snapshot, stateNodes, stateJobs, stateAllocs))
    /\ snapshot' = NoSnapshot
    /\ mainpc' = IF Len(jobEvaluations) + 1 = NumJobs THEN "write" ELSE "recv"
    /\ UNCHANGED <<args, handleVars, jobs, nodeIDs, pc, mutex, harnessVars,
                   storeVars, localVars, outputNodes, simOutput>>

\* ioutil.WriteFile(outFile, marshald, 0755); return 0
WriteOutput ==
    /\ mainpc = "write"
    /\ simOutput' = <<[Nodes |-> outputNodes, JobEvaluations |-> jobEvaluations]>>
    /\ mainpc' = "done"
    /\ UNCHANGED <<args, handleVars, jobs, nodeIDs, pc, mutex, harnessVars,
                   storeVars, localVars, snapshot, jobEvaluations, outputNodes>>

(***************************************************************************)
(* The goroutine of job j.                                                 *)
(***************************************************************************)
StartLocking(j) ==
    /\ Running
    /\ pc[j] = "start"
    /\ NextIndexLock = 0
    /\ startTimestamp' = [startTimestamp EXCEPT ![j] = UnixNano(j)]
    /\ pc' = [pc EXCEPT ![j] = "lock"]
    /\ UNCHANGED <<args, handleVars, jobs, mainVars, mutex, harnessVars, storeVars, index,
                   plan, result, simSnapshot, invoked>>

\* startTimestamp := int64(time.Now().UnixNano()); h.NextIndex(), the
\* argument of UpsertJob
Start(j) ==
    /\ Running
    /\ pc[j] = "start"
    /\ NextIndexLock = 0
    /\ startTimestamp' = [startTimestamp EXCEPT ![j] = UnixNano(j)]
    /\ index' = [index EXCEPT ![j] = NextIndex(nextIndex).idx]
    /\ nextIndex' = NextIndex(nextIndex).nextIndex
    /\ pc' = [pc EXCEPT ![j] = "upsert"]
    /\ UNCHANGED <<args, handleVars, jobs, mainVars, mutex, planLock, nextIndexLock, Plans, Evals, CreateEvals,
                   storeVars, plan, result, simSnapshot, invoked>>

UpsertJobDropped(j) ==
    /\ Running
    /\ pc[j] = "upsert"
    /\ stateJobs' = stateJobs
    /\ stateIndex' = [stateIndex EXCEPT !.jobs = index[j]]
    /\ index' = [index EXCEPT ![j] = 0]
    /\ pc' = [pc EXCEPT ![j] = "lock"]
    /\ UNCHANGED <<args, handleVars, jobs, mainVars, mutex, harnessVars, stateNodes,
                   stateAllocs, startTimestamp, plan, result, simSnapshot, invoked>>

\* noErr(h.State.UpsertJob(index, job)); eval := &structs.Evaluation{...}
UpsertJob(j) ==
    /\ Running
    /\ pc[j] = "upsert"
    /\ stateJobs' = [k \in DOMAIN stateJobs \cup {j} |->
                        IF k = j THEN jobs[j] ELSE stateJobs[k]]
    /\ stateIndex' = [stateIndex EXCEPT !.jobs = index[j]]
    /\ index' = [index EXCEPT ![j] = 0]
    /\ pc' = [pc EXCEPT ![j] = "lock"]
    /\ UNCHANGED <<args, handleVars, jobs, mainVars, mutex, harnessVars, stateNodes,
                   stateAllocs, startTimestamp, plan, result, simSnapshot, invoked>>

LockUnguarded(j) ==
    /\ Running
    /\ pc[j] = "lock"
    /\ mutex' = j
    /\ pc' = [pc EXCEPT ![j] = "process"]
    /\ UNCHANGED <<args, handleVars, jobs, mainVars, harnessVars, storeVars, localVars>>

\* mutex.Lock(); switch job.Type, which enters h.Process with the factory of
\* the job's type
Lock(j) ==
    /\ Running
    /\ pc[j] = "lock"
    /\ mutex = 0
    /\ mutex' = j
    /\ invoked' = [invoked EXCEPT ![j] = Append(@, Invocation(j))]
    /\ pc' = [pc EXCEPT ![j] = "process"]
    /\ UNCHANGED <<args, handleVars, jobs, mainVars, harnessVars, storeVars, startTimestamp,
                   index, plan, result, simSnapshot>>

\* h.Process: sched := h.Scheduler(factory) takes h.Snapshot(), and
\* sched.Process(eval) computes its plan from that snapshot; the plan is
\* submitted unless it is a no-op.
Process(j) ==
    /\ Running
    /\ pc[j] = "process"
    /\ \E placement \in Placements(jobs[j]) :
          /\ Feasible(jobs[j], placement, stateAllocs)
          /\ LET p == MakePlan(jobs[j], Evaluation(j).ID, placement)
             IN /\ plan' = [plan EXCEPT ![j] = p]
                /\ pc' = [pc EXCEPT ![j] = IF IsNoOp(p) THEN "update" ELSE "submit"]
    /\ UNCHANGED <<args, handleVars, jobs, mainVars, mutex, harnessVars, storeVars,
                   startTimestamp, index, result, simSnapshot, invoked>>

SubmitPlanLockUnguarded(j) ==
    /\ Running
    /\ pc[j] = "submit"
    /\ planLock' = j
    /\ Plans' = Append(Plans, plan[j])
    /\ pc' = [pc EXCEPT ![j] = "index"]
    /\ UNCHANGED <<args, handleVars, jobs, mainVars, mutex, nextIndexLock, nextIndex, Evals,
                   CreateEvals, storeVars, localVars>>

\* SubmitPlan: h.planLock.Lock(); defer h.planLock.Unlock();
\* h.Plans = append(h.Plans, plan)
SubmitPlanLock(j) ==
    /\ Running
    /\ pc[j] = "submit"
    /\ planLock = 0
    /\ planLock' = j
    /\ Plans' = Append(Plans, plan[j])
    /\ pc' = [pc EXCEPT ![j] = "index"]
    /\ UNCHANGED <<args, handleVars, jobs, mainVars, mutex, nextIndexLock, nextIndex, Evals,
                   CreateEvals, storeVars, localVars>>

\* SubmitPlan without a custom planner: index := h.NextIndex(), called with
\* the plan lock held.
SubmitPlanIndex(j) ==
    /\ Running
    /\ pc[j] = "index"
    /\ NextIndexLock = 0
    /\ index' = [index EXCEPT ![j] = NextIndex(nextIndex).idx]
    /\ nextIndex' = NextIndex(nextIndex).nextIndex
    /\ pc' = [pc EXCEPT ![j] = "apply"]
    /\ UNCHANGED <<args, handleVars, jobs, mainVars, mutex, planLock, nextIndexLock, Plans, Evals,
                   CreateEvals, storeVars, startTimestamp, plan, result,
                   simSnapshot, invoked>>

SubmitPlanApplyPlaced(j) ==
    /\ Running
    /\ pc[j] = "apply"
    /\ stateAllocs' = UpsertAllocs(stateAllocs,
                          UNION {Range(plan[j].NodeAllocation[n]) : n \in NodeIDs})
    /\ stateIndex' = [stateIndex EXCEPT !.allocs = index[j]]
    /\ result' = [result EXCEPT ![j] =
          [AllocIndex |-> index[j], NodeAllocation |-> plan[j].NodeAllocation]]
    /\ planLock' = 0
    /\ plan' = [plan EXCEPT ![j] = NoPlan]
    /\ index' = [index EXCEPT ![j] = 0]
    /\ pc' = [pc EXCEPT ![j] = "update"]
    /\ UNCHANGED <<args, handleVars, jobs, mainVars, mutex, nextIndexLock, nextIndex, Plans, Evals,
                   CreateEvals, stateNodes, stateJobs, startTimestamp,
                   simSnapshot, invoked>>

SubmitPlanApplyPartial(j) ==
    /\ Running
    /\ pc[j] = "apply"
    /\ stateAllocs' = UpsertAllocs(stateAllocs, Range(plan[j].NodeAllocation[1]))
    /\ planLock' = 0
    /\ mainpc' = "panic"
    /\ UNCHANGED <<args, handleVars, jobs, nodeIDs, pc, mutex, nextIndexLock, nextIndex, Plans, Evals,
                   CreateEvals, stateNodes, stateJobs, stateIndex, localVars,
                   snapshot, jobEvaluations, outputNodes, simOutput>>

SubmitPlanApplyFresh(j) ==
    /\ Running
    /\ pc[j] = "apply"
    /\ stateAllocs' = Flatten(plan[j])
    /\ stateIndex' = [stateIndex EXCEPT !.allocs = index[j]]
    /\ result' = [result EXCEPT ![j] =
          [AllocIndex |-> index[j], NodeAllocation |-> plan[j].NodeAllocation]]
    /\ planLock' = 0
    /\ plan' = [plan EXCEPT ![j] = NoPlan]
    /\ index' = [index EXCEPT ![j] = 0]
    /\ pc' = [pc EXCEPT ![j] = "update"]
    /\ UNCHANGED <<args, handleVars, jobs, mainVars, mutex, nextIndexLock, nextIndex, Plans, Evals,
                   CreateEvals, stateNodes, stateJobs, startTimestamp,
                   simSnapshot, invoked>>

\* SubmitPlan: err := h.State.UpsertAllocs(index, allocs); return (unlocks)
SubmitPlanApply(j) ==
    /\ Running
    /\ pc[j] = "apply"
    /\ stateAllocs' = UpsertAllocs(stateAllocs, Flatten(plan[j]))
    /\ stateIndex' = [stateIndex EXCEPT !.allocs = index[j]]
    /\ result' = [result EXCEPT ![j] =
          [AllocIndex |-> index[j], NodeAllocation |-> plan[j].NodeAllocation]]
    /\ planLock' = 0
    /\ plan' = [plan EXCEPT ![j] = NoPlan]
    /\ index' = [index EXCEPT ![j] = 0]
    /\ pc' = [pc EXCEPT ![j] = "update"]
    /\ UNCHANGED <<args, handleVars, jobs, mainVars, mutex, nextIndexLock, nextIndex, Plans, Evals,
                   CreateEvals, stateNodes, stateJobs, startTimestamp,
                   simSnapshot, invoked>>

\* CreateEval, which a scheduler calls at most once before it updates its
\* evaluation: h.planLock.Lock(); h.CreateEvals = append(h.CreateEvals, eval)
CreateEval(j) ==
    /\ Running
    /\ pc[j] = "update"
    /\ planLock = 0
    /\ \A i \in DOMAIN CreateEvals : CreateEvals[i].JobID # j
    /\ CreateEvals' = Append(CreateEvals, [ID |-> 2 * NumJobs + j, JobID |-> j])
    /\ UNCHANGED <<args, handleVars, jobs, mainVars, pc, mutex, planLock, nextIndexLock, nextIndex, Plans, Evals,
                   storeVars, localVars>>

UpdateEvalIndexed(j) ==
    /\ Running
    /\ pc[j] = "update"
    /\ planLock = 0
    /\ Evals' = Append(Evals, Evaluation(j))
    /\ nextIndex' = NextIndex(nextIndex).nextIndex
    /\ plan' = [plan EXCEPT ![j] = NoPlan]
    /\ result' = [result EXCEPT ![j] = NoResult]
    /\ pc' = [pc EXCEPT ![j] = "unlock"]
    /\ UNCHANGED <<args, handleVars, jobs, mainVars, mutex, planLock, nextIndexLock, Plans,
                   CreateEvals, storeVars, startTimestamp, index, simSnapshot, invoked>>

\* UpdateEval, called by the scheduler to set the status of the evaluation:
\* h.planLock.Lock(); defer h.planLock.Unlock(); h.Evals = append(h.Evals, eval)
UpdateEval(j) ==
    /\ Running
    /\ pc[j] = "update"
    /\ planLock = 0
    /\ Evals' = Append(Evals, Evaluation(j))
    /\ plan' = [plan EXCEPT ![j] = NoPlan]
    /\ result' = [result EXCEPT ![j] = NoResult]
    /\ pc' = [pc EXCEPT ![j] = "unlock"]
    /\ UNCHANGED <<args, handleVars, jobs, mainVars, mutex, planLock, nextIndexLock, nextIndex, Plans,
                   CreateEvals, storeVars, startTimestamp, index, simSnapshot, invoked>>

SubmitPlanApplyRetry(j) ==
    /\ Running
    /\ pc[j] = "apply"
    /\ index' = [index EXCEPT ![j] = 0]
    /\ pc' = [pc EXCEPT ![j] = "index"]
    /\ UNCHANGED <<args, handleVars, jobs, mainVars, mutex, harnessVars, storeVars,
                   startTimestamp, plan, result, simSnapshot, invoked>>

\* SubmitPlan when the state container refuses the allocations:
\* err := h.State.UpsertAllocs(index, allocs); return result, nil, err (and
\* the deferred unlock).  The state container is left as it was.
SubmitPlanApplyError(j) ==
    /\ Running
    /\ pc[j] = "apply"
    /\ result' = [result EXCEPT ![j] =
          [AllocIndex |-> index[j], NodeAllocation |-> plan[j].NodeAllocation]]
    /\ planLock' = 0
    /\ index' = [index EXCEPT ![j] = 0]
    /\ pc' = [pc EXCEPT ![j] = "submiterr"]
    /\ UNCHANGED <<args, handleVars, jobs, mainVars, mutex, nextIndexLock, nextIndex, Plans,
                   Evals, CreateEvals, storeVars, startTimestamp, plan,
                   simSnapshot, invoked>>

ProcessErrorIsolated(j) ==
    /\ Running
    /\ pc[j] \in {"process", "submiterr", "update"}
    /\ pc' = [pc EXCEPT ![j] = "error"]
    /\ mutex' = 0
    /\ UNCHANGED <<args, handleVars, jobs, mainVars, harnessVars, storeVars, localVars>>

\* sched.Process returns an error and noErr panics; the error may be the one
\* SubmitPlan returned.
ProcessError(j) ==
    /\ Running
    /\ pc[j] \in {"process", "submiterr", "update"}
    /\ pc' = [pc EXCEPT ![j] = "error"]
    /\ mainpc' = "panic"
    /\ UNCHANGED <<args, handleVars, jobs, nodeIDs, mutex, planLock, nextIndexLock, nextIndex, Plans, Evals,
                   CreateEvals, storeVars, localVars, snapshot, jobEvaluations,
                   outputNodes, simOutput>>

UnlockKeep(j) ==
    /\ Running
    /\ pc[j] = "unlock"
    /\ mutex' = mutex
    /\ pc' = [pc EXCEPT ![j] = "build"]
    /\ UNCHANGED <<args, handleVars, jobs, mainVars, harnessVars, storeVars, localVars>>

\* mutex.Unlock()
Unlock(j) ==
    /\ Running
    /\ pc[j] = "unlock"
    /\ mutex' = 0
    /\ pc' = [pc EXCEPT ![j] = "build"]
    /\ UNCHANGED <<args, handleVars, jobs, mainVars, harnessVars, storeVars, localVars>>

BuildSnapshotForeign(j) ==
    /\ Running
    /\ pc[j] = "build"
    /\ simSnapshot' = [simSnapshot EXCEPT ![j] =
          [Eval |-> Evaluation(j),
           Plans |-> SelectSeq(Plans, LAMBDA p : p.EvalID # Evaluation(j).ID),
           NodeIDs |-> nodeIDs, Time |-> startTimestamp[j]]]
    /\ startTimestamp' = [startTimestamp EXCEPT ![j] = 0]
    /\ pc' = [pc EXCEPT ![j] = "send"]
    /\ UNCHANGED <<args, handleVars, jobs, mainVars, mutex, harnessVars, storeVars, index,
                   plan, result, invoked>>

\* simSnapshot := &SimSnapshot{Eval, Plans: h.Plans, State: h.State, NodeIDs, Time}
BuildSnapshot(j) ==
    /\ Running
    /\ pc[j] = "build"
    /\ simSnapshot' = [simSnapshot EXCEPT ![j] =
          [Eval |-> Evaluation(j), Plans |-> Plans, NodeIDs |-> nodeIDs,
           Time |-> startTimestamp[j]]]
    /\ startTimestamp' = [startTimestamp EXCEPT ![j] = 0]
    /\ pc' = [pc EXCEPT ![j] = "send"]
    /\ UNCHANGED <<args, handleVars, jobs, mainVars, mutex, harnessVars, storeVars, index,
                   plan, result, invoked>>

MainStep ==
    \/ ParseFlags
    \/ LoadFiles
    \/ UpsertNode
    \/ Launch
    \/ \E j \in JobIDs : Receive(j)
    \/ GetMetrics
    \/ WriteOutput

JobStep(j) ==
    \/ Start(j)
    \/ UpsertJob(j)
    \/ Lock(j)
    \/ Process(j)
    \/ SubmitPlanLock(j)
    \/ SubmitPlanIndex(j)
    \/ SubmitPlanApply(j)
    \/ UpdateEval(j)
    \/ Unlock(j)
    \/ BuildSnapshot(j)

Next ==
    \/ MainStep
    \/ \E j \in JobIDs : JobStep(j)
    \/ LoadError
    \/ \E j \in JobIDs : SubmitPlanApplyError(j)
    \/ \E j \in JobIDs : ProcessError(j)

Spec == Init /\ [][Next]_vars

\* The run when no scheduler invocation fails and the Go runtime keeps
\* running some goroutine that is able to run; job j is read from job file j.
NextNoError ==
    \/ MainStep
    \/ \E j \in JobIDs : JobStep(j)

InitFair ==
    /\ Init
    /\ args = [nodeList |-> "nodes.list", jobList |-> "jobs.list"]
    /\ \A j \in JobIDs : jobs[j].Type = JobFiles[((j - 1) % 3) + 1].Type

FairSpec ==
    /\ InitFair
    /\ [][NextNoError]_vars
    /\ WF_vars(NextNoError)

(***************************************************************************)
(* getMetrics as a function of the snapshot it is given.  The collection   *)
(* loop starts with every goroutine blocked in its channel send; job 1 and *)
(* the plans of its evaluation are drawn from bounded sets (more than one  *)
(* plan for an evaluation is what a planner that forces a refresh, such as *)
(* RejectPlan, leaves in the plan history); the other jobs have no task    *)
(* group, so the scheduler submitted no plan for them.                     *)
(***************************************************************************)
MaxPlans == 2

\* A job file without task groups.
EmptyJob(j) == [ID |-> j, Type |-> JobTypeService, TaskGroups |-> <<>>]

\* A job file of a service job with one task group that asks for three
\* replicas.
ReplicatedJob(j) ==
    [ID |-> j, Type |-> JobTypeService,
     TaskGroups |-> <<[Name |-> "web", Count |-> 3,
                       Resources |-> SimResources(1, 1, 1, 0)]>>]

MetricsJobs(j) ==
    IF j = 1 THEN ParseFile(1) \cup {EmptyJob(1), ReplicatedJob(1)}
    ELSE {EmptyJob(j)}

\* The plans the scheduler may submit for the job from an empty cluster.
PlanChoices(job) ==
    {p \in {MakePlan(job, Evaluation(job.ID).ID, placement) :
              placement \in {pl \in Placements(job) : Feasible(job, pl, {})}} :
        ~IsNoOp(p)}

\* The plan histories: no plan when there is nothing to schedule, else one
\* plan, or several when every submission was answered by a forced refresh.
PlanHistories(job) ==
    IF job.TaskGroups = <<>> THEN {<<>>}
    ELSE UNION {[1..n -> PlanChoices(job)] : n \in 1..MaxPlans}

MetricsInit ==
    \E job \in MetricsJobs(1) : \E history \in PlanHistories(job) :
        /\ args = [nodeList |-> "nodes.list", jobList |-> "jobs.list"]
        /\ NoHandle
        /\ jobs = [j \in JobIDs |-> IF j = 1 THEN job ELSE EmptyJob(j)]
        /\ mainpc = "recv"
        /\ nodeIDs = NodeOrder(NumNodes)
        /\ pc = [j \in JobIDs |-> "send"]
        /\ startTimestamp = [j \in JobIDs |-> 0]
        /\ index = [j \in JobIDs |-> 0]
        /\ mutex = 0
        /\ planLock = 0
        /\ nextIndexLock = 0
        /\ nextIndex = 1 + NumNodes + NumJobs + Len(history)
        /\ Plans = history
        /\ Evals = [j \in JobIDs |-> Evaluation(j)]
        /\ CreateEvals = <<>>
        /\ stateNodes = [n \in NodeIDs |-> LoadNodeFile(n)]
        /\ stateJobs = [j \in JobIDs |-> IF j = 1 THEN job ELSE EmptyJob(j)]
        /\ stateAllocs = IF Len(history) = 1 THEN Flatten(history[1]) ELSE {}
        /\ stateIndex = [nodes |-> NumNodes, jobs |-> NumNodes + NumJobs,
                         allocs |-> IF Len(history) = 1
                                    THEN NumNodes + NumJobs + 1 ELSE 0]
        /\ plan = [j \in JobIDs |-> NoPlan]
        /\ result = [j \in JobIDs |-> NoResult]
        /\ simSnapshot = [j \in JobIDs |->
              [Eval |-> Evaluation(j), Plans |-> history,
               NodeIDs |-> NodeOrder(NumNodes), Time |-> UnixNano(j)]]
        /\ invoked = [j \in JobIDs |-> <<Invocation(j)>>]
        /\ snapshot = NoSnapshot
        /\ jobEvaluations = <<>>
        /\ outputNodes = [n \in NodeIDs |-> parseNode(LoadNodeFile(n))]
        /\ simOutput = <<>>

MetricsNext ==
    \/ \E j \in JobIDs : Receive(j)
    \/ GetMetrics
    \/ WriteOutput

MetricsSpec == MetricsInit /\ [][MetricsNext]_vars

(***************************************************************************)
(* getMetrics on the plans of any scheduler.  The scheduler is chosen by   *)
(* the factory handed to h.Process and may be replaced, so getMetrics is   *)
(* also run here on plans whose only tie to the cluster is that their      *)
(* allocations fit the nodes: a plan may place more replicas than the task *)
(* group asks for, and may report a failure for any task group.            *)
(***************************************************************************)
\* A job file whose first task group is scaled down to no replica.
ScaledDownJob(j) ==
    [ID |-> j, Type |-> JobTypeService,
     TaskGroups |-> <<[Name |-> "web", Count |-> 0,
                       Resources |-> SimResources(1, 1, 1, 0)],
                      [Name |-> "db", Count |-> MaxCount,
                       Resources |-> SimResources(1, 1, 0, 1)]>>]

AnyPlanJobs(j) ==
    IF j = 1 THEN ParseFile(1) \cup {ReplicatedJob(1), ScaledDownJob(1)}
    ELSE {EmptyJob(j)}

\* One failed allocation for every task group in reported.
RECURSIVE ReportedFailedAllocs(_, _, _, _)
ReportedFailedAllocs(job, evalID, reported, t) ==
    IF t > Len(job.TaskGroups) THEN <<>>
    ELSE (IF t \in reported
          THEN <<NewAllocation(job, evalID, t, NoNode, 0)>> ELSE <<>>)
         \o ReportedFailedAllocs(job, evalID, reported, t + 1)

\* The plans of any scheduler for the job on an empty cluster.
AnyPlans(job) ==
    {p \in UNION {{[EvalID |-> Evaluation(job.ID).ID,
                     NodeAllocation |->
                         [n \in NodeIDs |->
                             NodeAllocationOf(job, Evaluation(job.ID).ID, placement, n, 1)],
                     FailedAllocs |->
                         ReportedFailedAllocs(job, Evaluation(job.ID).ID, reported, 1)] :
                      reported \in SUBSET DOMAIN job.TaskGroups} :
                  placement \in {pl \in Placements(job) : Fits(job, pl, {})}} :
        ~IsNoOp(p)}

AnyPlanInit ==
    \E job \in AnyPlanJobs(1) : \E p \in AnyPlans(job) :
        /\ args = [nodeList |-> "nodes.list", jobList |-> "jobs.list"]
        /\ NoHandle
        /\ jobs = [j \in JobIDs |-> IF j = 1 THEN job ELSE EmptyJob(j)]
        /\ mainpc = "recv"
        /\ nodeIDs = NodeOrder(NumNodes)
        /\ pc = [j \in JobIDs |-> "send"]
        /\ startTimestamp = [j \in JobIDs |-> 0]
        /\ index = [j \in JobIDs |-> 0]
        /\ mutex = 0
        /\ planLock = 0
        /\ nextIndexLock = 0
        /\ nextIndex = 2 + NumNodes + NumJobs
        /\ Plans = <<p>>
        /\ Evals = [j \in JobIDs |-> Evaluation(j)]
        /\ CreateEvals = <<>>
        /\ stateNodes = [n \in NodeIDs |-> LoadNodeFile(n)]
        /\ stateJobs = [j \in JobIDs |-> IF j = 1 THEN job ELSE EmptyJob(j)]
        /\ stateAllocs = Flatten(p)
        /\ stateIndex = [nodes |-> NumNodes, jobs |-> NumNodes + NumJobs,
                         allocs |-> NumNodes + NumJobs + 1]
        /\ plan = [j \in JobIDs |-> NoPlan]
        /\ result = [j \in JobIDs |-> NoResult]
        /\ simSnapshot = [j \in JobIDs |->
              [Eval |-> Evaluation(j), Plans |-> <<p>>,
               NodeIDs |-> NodeOrder(NumNodes), Time |-> UnixNano(j)]]
        /\ invoked = [j \in JobIDs |-> <<Invocation(j)>>]
        /\ snapshot = NoSnapshot
        /\ jobEvaluations = <<>>
        /\ outputNodes = [n \in NodeIDs |-> parseNode(LoadNodeFile(n))]
        /\ simOutput = <<>>

AnyPlanSpec == AnyPlanInit /\ [][MetricsNext]_vars

(***************************************************************************)
(* The harness under concurrent callers.  SimHarness is a planner any      *)
(* number of schedulers may share: here every scheduler runs without the   *)
(* mutex of Run around it, so that only the locks of the harness order the *)
(* calls of SubmitPlan, CreateEval and UpdateEval.                          *)
(***************************************************************************)
HarnessInit ==
    /\ args = [nodeList |-> "nodes.list", jobList |-> "jobs.list"]
    /\ NoHandle
    /\ jobs \in {f \in [JobIDs -> UNION {ParseFile(j) : j \in JobIDs}] :
                    \A j \in JobIDs : f[j] \in ParseFile(j)}
    /\ mainpc = "recv"
    /\ nodeIDs = NodeOrder(NumNodes)
    /\ pc = [j \in JobIDs |-> "process"]
    /\ startTimestamp = [j \in JobIDs |-> UnixNano(j)]
    /\ index = [j \in JobIDs |-> 0]
    /\ mutex = 0
    /\ planLock = 0
    /\ nextIndexLock = 0
    /\ nextIndex = 1 + NumNodes + NumJobs
    /\ Plans = <<>>
    /\ Evals = <<>>
    /\ CreateEvals = <<>>
    /\ stateNodes = [n \in NodeIDs |-> LoadNodeFile(n)]
    /\ stateJobs = jobs
    /\ stateAllocs = {}
    /\ stateIndex = [nodes |-> NumNodes, jobs |-> NumNodes + NumJobs, allocs |-> 0]
    /\ plan = [j \in JobIDs |-> NoPlan]
    /\ result = [j \in JobIDs |-> NoResult]
    /\ simSnapshot = [j \in JobIDs |-> NoSnapshot]
    /\ invoked = [j \in JobIDs |-> <<Invocation(j)>>]
    /\ snapshot = NoSnapshot
    /\ jobEvaluations = <<>>
    /\ outputNodes = [n \in NodeIDs |-> parseNode(LoadNodeFile(n))]
    /\ simOutput = <<>>

HarnessNext ==
    \E j \in JobIDs :
        \/ Process(j)
        \/ SubmitPlanLock(j)
        \/ SubmitPlanIndex(j)
        \/ SubmitPlanApply(j)
        \/ CreateEval(j)
        \/ UpdateEval(j)

HarnessSpec == HarnessInit /\ [][HarnessNext]_vars

(***************************************************************************)
(* The harness with a custom planner.  When h.Planner is set, SubmitPlan   *)
(* hands the plan to it after taking the plan lock and storing the plan.   *)
(* RejectPlan is the planner of the repository: it rejects every plan and  *)
(* forces a refresh, so the scheduler plans again until it has used up its *)
(* attempts (MaxPlans) and then updates its evaluation.                    *)
(***************************************************************************)
RejectPlanSubmitPlanPartial(j) ==
    /\ Running
    /\ pc[j] = "index"
    /\ NextIndexLock = 0
    /\ result' = [result EXCEPT ![j] =
          [AllocIndex |-> 0, NodeAllocation |-> plan[j].NodeAllocation,
           RefreshIndex |-> NextIndex(nextIndex).idx]]
    /\ nextIndex' = NextIndex(nextIndex).nextIndex
    /\ stateAllocs' = UpsertAllocs(stateAllocs, Flatten(plan[j]))
    /\ planLock' = 0
    /\ plan' = [plan EXCEPT ![j] = NoPlan]
    /\ pc' = [pc EXCEPT ![j] =
          IF Cardinality({i \in DOMAIN Plans :
                             Plans[i].EvalID = Evaluation(j).ID}) < MaxPlans
          THEN "process" ELSE "update"]
    /\ UNCHANGED <<args, handleVars, jobs, mainVars, mutex, nextIndexLock, Plans, Evals,
                   CreateEvals, stateNodes, stateJobs, stateIndex, startTimestamp,
                   index, simSnapshot, invoked>>

\* SubmitPlan with h.Planner = RejectPlan: return h.Planner.SubmitPlan(plan),
\* which is result.RefreshIndex = r.SimHarness.NextIndex(), called with the
\* plan lock held; the deferred unlock follows.
RejectPlanSubmitPlan(j) ==
    /\ Running
    /\ pc[j] = "index"
    /\ NextIndexLock = 0
    /\ result' = [result EXCEPT ![j] =
          [AllocIndex |-> 0, NodeAllocation |-> <<>>,
           RefreshIndex |-> NextIndex(nextIndex).idx]]
    /\ nextIndex' = NextIndex(nextIndex).nextIndex
    /\ planLock' = 0
    /\ plan' = [plan EXCEPT ![j] = NoPlan]
    /\ pc' = [pc EXCEPT ![j] =
          IF Cardinality({i \in DOMAIN Plans :
                             Plans[i].EvalID = Evaluation(j).ID}) < MaxPlans
          THEN "process" ELSE "update"]
    /\ UNCHANGED <<args, handleVars, jobs, mainVars, mutex, nextIndexLock, Plans, Evals,
                   CreateEvals, storeVars, startTimestamp, index, simSnapshot, invoked>>

\* Run with the planner set, from the start of the job goroutines to the
\* release of the mutex.
PlannerInit ==
    /\ args = [nodeList |-> "nodes.list", jobList |-> "jobs.list"]
    /\ NoHandle
    /\ jobs \in {f \in [JobIDs -> UNION {ParseFile(j) : j \in JobIDs}] :
                    \A j \in JobIDs : f[j] \in ParseFile(j)}
    /\ mainpc = "recv"
    /\ nodeIDs = NodeOrder(NumNodes)
    /\ pc = [j \in JobIDs |-> "start"]
    /\ startTimestamp = [j \in JobIDs |-> 0]
    /\ index = [j \in JobIDs |-> 0]
    /\ mutex = 0
    /\ planLock = 0
    /\ nextIndexLock = 0
    /\ nextIndex = 1 + NumNodes
    /\ Plans = <<>>
    /\ Evals = <<>>
    /\ CreateEvals = <<>>
    /\ stateNodes = [n \in NodeIDs |-> LoadNodeFile(n)]
    /\ stateJobs = <<>>
    /\ stateAllocs = {}
    /\ stateIndex = [nodes |-> NumNodes, jobs |-> 0, allocs |-> 0]
    /\ plan = [j \in JobIDs |-> NoPlan]
    /\ result = [j \in JobIDs |-> NoResult]
    /\ simSnapshot = [j \in JobIDs |-> NoSnapshot]
    /\ invoked = [j \in JobIDs |-> <<>>]
    /\ snapshot = NoSnapshot
    /\ jobEvaluations = <<>>
    /\ outputNodes = [n \in NodeIDs |-> parseNode(LoadNodeFile(n))]
    /\ simOutput = <<>>

PlannerNext ==
    \E j \in JobIDs :
        \/ Start(j)
        \/ UpsertJob(j)
        \/ Lock(j)
        \/ Process(j)
        \/ SubmitPlanLock(j)
        \/ RejectPlanSubmitPlan(j)
        \/ UpdateEval(j)
        \/ Unlock(j)

PlannerSpec == PlannerInit /\ [][PlannerNext]_vars

(***************************************************************************)
(* The run when calls of the state container fail.  UpsertAllocs fails in  *)
(* SubmitPlanApplyError; here the other calls Run and getMetrics make fail *)
(* too.                                                                    *)
(***************************************************************************)
\* noErr(h.State.UpsertNode(h.NextIndex(), node)) when UpsertNode fails
UpsertNodeError ==
    /\ mainpc = "nodes"
    /\ NextIndexLock = 0
    /\ nextIndex' = NextIndex(nextIndex).nextIndex
    /\ mainpc' = "panic"
    /\ UNCHANGED <<args, handleVars, jobs, nodeIDs, pc, mutex, planLock, nextIndexLock, Plans,
                   Evals, CreateEvals, storeVars, localVars, snapshot,
                   jobEvaluations, outputNodes, simOutput>>

\* noErr(h.State.UpsertJob(index, job)) when UpsertJob fails
UpsertJobError(j) ==
    /\ Running
    /\ pc[j] = "upsert"
    /\ pc' = [pc EXCEPT ![j] = "error"]
    /\ mainpc' = "panic"
    /\ UNCHANGED <<args, handleVars, jobs, nodeIDs, mutex, harnessVars, storeVars, localVars,
                   snapshot, jobEvaluations, outputNodes, simOutput>>

\* node, err := h.State.NodeByID(nodeID); noErr(err) in the roster loop, when
\* NodeByID fails; the goroutines were started before the loop.
RosterNodeByIDError ==
    /\ mainpc = "launch"
    /\ pc' = [j \in JobIDs |-> "start"]
    /\ mainpc' = "panic"
    /\ UNCHANGED <<args, handleVars, jobs, nodeIDs, mutex, harnessVars, storeVars, localVars,
                   snapshot, jobEvaluations, outputNodes, simOutput>>

\* getMetrics: evaluatedJob, err := state.JobByID(eval.JobID); noErr(err), and
\* node, err := state.NodeByID(nodeID); noErr(err), when the call fails.
GetMetricsLookupError ==
    /\ mainpc = "metrics"
    /\ mainpc' = "panic"
    /\ UNCHANGED <<args, handleVars, jobs, nodeIDs, pc, mutex, harnessVars, storeVars, localVars,
                   snapshot, jobEvaluations, outputNodes, simOutput>>

\* getMetrics when the AllocsByNode calls of getAvailable fail:
\* allocations, _ := state.AllocsByNode(node.ID) drops the error and loops
\* over the nil list returned with it.  getAvailable is called once per
\* changed node, so the call is made only when there is one.
GetMetricsAllocsByNodeError ==
    /\ mainpc = "metrics"
    /\ getMetrics(snapshot, stateNodes, stateJobs, stateAllocs).NodeUsageChanges
           # EmptyBag
    /\ jobEvaluations' = Append(jobEvaluations,
            getMetrics(snapshot, stateNodes, stateJobs, {}))
    /\ snapshot' = NoSnapshot
    /\ mainpc' = IF Len(jobEvaluations) + 1 = NumJobs THEN "write" ELSE "recv"
    /\ UNCHANGED <<args, handleVars, jobs, nodeIDs, pc, mutex, harnessVars,
                   storeVars, localVars, outputNodes, simOutput>>

StoreError ==
    \/ UpsertNodeError
    \/ \E j \in JobIDs : UpsertJobError(j)
    \/ RosterNodeByIDError
    \/ GetMetricsLookupError
    \/ GetMetricsAllocsByNodeError

FaultNext ==
    \/ Next
    \/ StoreError

FaultSpec == Init /\ [][FaultNext]_vars

(***************************************************************************)
(* The task handle of the hooklift driver.  Start (or Open) built the      *)
(* handle with an open doneCh and a waitCh of capacity 1 and started the   *)
(* goroutine run; Kill is called once, at any moment from then on.  The    *)
(* kill timeout is positive, so the channel of time.After is empty when    *)
(* the select of Kill is entered.  A select that waits is decided by the   *)
(* first of its channels to become ready.                                  *)
(***************************************************************************)
ProcessStates == [ExitCode : {0, 1}, Err : {"nil", "error"}]

\* The simulator at rest, and the handle as Start returned it.
HandleInit ==
    /\ args = [nodeList |-> "", jobList |-> ""]
    /\ jobs = [j \in JobIDs |-> EmptyJob(j)]
    /\ mainpc = "return1"
    /\ nodeIDs = <<>>
    /\ pc = [j \in JobIDs |-> "idle"]
    /\ startTimestamp = [j \in JobIDs |-> 0]
    /\ index = [j \in JobIDs |-> 0]
    /\ mutex = 0
    /\ planLock = 0
    /\ nextIndexLock = 0
    /\ nextIndex = 1
    /\ Plans = <<>>
    /\ Evals = <<>>
    /\ CreateEvals = <<>>
    /\ stateNodes = <<>>
    /\ stateJobs = <<>>
    /\ stateAllocs = {}
    /\ stateIndex = [nodes |-> 0, jobs |-> 0, allocs |-> 0]
    /\ plan = [j \in JobIDs |-> NoPlan]
    /\ result = [j \in JobIDs |-> NoResult]
    /\ simSnapshot = [j \in JobIDs |-> NoSnapshot]
    /\ invoked = [j \in JobIDs |-> <<>>]
    /\ snapshot = NoSnapshot
    /\ jobEvaluations = <<>>
    /\ outputNodes = <<>>
    /\ simOutput = <<>>
    /\ killpc = "idle"
    /\ runpc = "wait"
    /\ doneCh = "open"
    /\ timer = "unset"
    /\ ps = NoProcessState
    /\ waitCh = [buf |-> <<>>, closed |-> FALSE]
    /\ calls = <<>>
    /\ killReturn = "none"

\* Kill: h.executor.ShutDown()
KillShutDown ==
    /\ killpc = "idle"
    /\ calls' = Append(calls, [Op |-> "ShutDown", By |-> "Kill", Err |-> "nil"])
    /\ killpc' = "select"
    /\ UNCHANGED <<simulatorVars, runpc, doneCh, timer, ps, waitCh, killReturn>>

KillSelectTimerOnly ==
    /\ killpc = "select"
    /\ timer' = "running"
    /\ killpc' = "blocked"
    /\ UNCHANGED <<simulatorVars, runpc, doneCh, ps, waitCh, calls, killReturn>>

\* Kill: the select is entered.  time.After starts the timer; when doneCh is
\* closed already the first case is ready and Kill returns nil, else Kill
\* waits for the first of the two channels.
KillSelect ==
    /\ killpc = "select"
    /\ timer' = "running"
    /\ IF doneCh = "closed"
       THEN /\ killpc' = "return"
            /\ killReturn' = "nil"
       ELSE /\ killpc' = "blocked"
            /\ UNCHANGED killReturn
    /\ UNCHANGED <<simulatorVars, runpc, doneCh, ps, waitCh, calls>>

\* The kill timeout elapses: the channel of time.After becomes ready, which
\* decides the select of a Kill that waits.
TimeAfter ==
    /\ timer = "running"
    /\ timer' = "fired"
    /\ killpc' = IF killpc = "blocked" THEN "timeout" ELSE killpc
    /\ UNCHANGED <<simulatorVars, runpc, doneCh, ps, waitCh, calls, killReturn>>

\* Kill: case <-h.doneCh: return nil
KillDone ==
    /\ killpc = "done"
    /\ killReturn' = "nil"
    /\ killpc' = "return"
    /\ UNCHANGED <<simulatorVars, runpc, doneCh, timer, ps, waitCh, calls>>

\* Kill: case <-time.After(h.killTimeout): return h.executor.Exit()
KillExit ==
    /\ killpc = "timeout"
    /\ \E err \in {"nil", "error"} :
          /\ calls' = Append(calls, [Op |-> "Exit", By |-> "Kill", Err |-> err])
          /\ killReturn' = err
    /\ killpc' = "return"
    /\ UNCHANGED <<simulatorVars, runpc, doneCh, timer, ps, waitCh>>

\* run: ps, err := h.executor.Wait(), which returns when the task has ended,
\* by itself, after the shutdown request or with the executor.
runWait ==
    /\ runpc = "wait"
    /\ ps' \in ProcessStates
    /\ runpc' = "close"
    /\ UNCHANGED <<simulatorVars, killpc, doneCh, timer, waitCh, calls, killReturn>>

\* run: close(h.doneCh), which decides the select of a Kill that waits; then
\* the test ps.ExitCode == 0 && err != nil.
runClose ==
    /\ runpc = "close"
    /\ doneCh' = "closed"
    /\ killpc' = IF killpc = "blocked" THEN "done" ELSE killpc
    /\ runpc' = IF ps.ExitCode = 0 /\ ps.Err # "nil" THEN "cleanup" ELSE "send"
    /\ UNCHANGED <<simulatorVars, timer, ps, waitCh, calls, killReturn>>

\* run: killProcess(h.executorPid); h.allocDir.UnmountAll(), errors logged
runCleanup ==
    /\ runpc = "cleanup"
    /\ runpc' = "send"
    /\ UNCHANGED <<simulatorVars, killpc, doneCh, timer, ps, waitCh, calls,
                   killReturn>>

\* run: h.waitCh <- NewWaitResult(ps.ExitCode, 0, err); close(h.waitCh).  The
\* channel has room for the one result.
runSend ==
    /\ runpc = "send"
    /\ waitCh' = [buf |-> Append(waitCh.buf, ps), closed |-> TRUE]
    /\ runpc' = "deregister"
    /\ UNCHANGED <<simulatorVars, killpc, doneCh, timer, ps, calls, killReturn>>

\* run: h.executor.DeregisterServices(), error logged
runDeregister ==
    /\ runpc = "deregister"
    /\ \E err \in {"nil", "error"} :
          calls' = Append(calls, [Op |-> "DeregisterServices", By |-> "run",
                                  Err |-> err])
    /\ runpc' = "exit"
    /\ UNCHANGED <<simulatorVars, killpc, doneCh, timer, ps, waitCh, killReturn>>

\* run: h.executor.Exit(), error logged; h.pluginClient.Kill()
runExit ==
    /\ runpc = "exit"
    /\ \E err \in {"nil", "error"} :
          calls' = calls \o <<[Op |-> "Exit", By |-> "run", Err |-> err],
                              [Op |-> "pluginClient.Kill", By |-> "run",
                               Err |-> "nil"]>>
    /\ runpc' = "returned"
    /\ UNCHANGED <<simulatorVars, killpc, doneCh, timer, ps, waitCh, killReturn>>

HandleNext ==
    \/ KillShutDown
    \/ KillSelect
    \/ TimeAfter
    \/ KillDone
    \/ KillExit
    \/ runWait
    \/ runClose
    \/ runCleanup
    \/ runSend
    \/ runDeregister
    \/ runExit

HandleSpec == HandleInit /\ [][HandleNext]_vars

(***************************************************************************)
(* Properties.                                                             *)
(***************************************************************************)
\* Job j's scheduler invocation is in progress: it holds the mutex and
\* h.Process has not yet returned to a released mutex.
InvocationInProgress(j) ==
    pc[j] \in {"process", "submit", "index", "apply", "submiterr", "update",
              "unlock"}

\* C1: at most one job's scheduler invocation is in progress, and the job
\* whose invocation is in progress is the holder of the scheduling mutex.
C1_SchedulingMutualExclusion ==
    \A j, k \in JobIDs :
        /\ (InvocationInProgress(j) /\ InvocationInProgress(k)) => j = k
        /\ InvocationInProgress(j) => mutex = j

\* A job waits for the mutex while another job's plan is being applied.
C1_Witness ==
    \E j, k \in JobIDs : j # k /\ pc[j] = "apply" /\ pc[k] = "lock" /\ mutex = j

\* What the allocations recorded on node n consume in one dimension.
Consumed(allocs, n, dim) ==
    LET RECURSIVE Sum(_)
        Sum(S) == IF S = {} THEN 0
                  ELSE LET a == CHOOSE x \in S : TRUE
                       IN a.Resources[dim] + Sum(S \ {a})
    IN Sum({a \in allocs : a.NodeID = n})

\* total - reserved - sum of the allocations recorded on node n.
Residual(allocs, n) ==
    [dim \in Dimensions |->
        LoadNodeFile(n).Resources[dim] - LoadNodeFile(n).Reserved[dim]
            - Consumed(allocs, n, dim)]

\* C2: no node is over-committed: in every dimension total - reserved - the
\* sum of the allocations recorded on the node is never negative.
C2_NoOverCommit ==
    \A n \in NodeIDs :
        \A dim \in Dimensions : Residual(stateAllocs, n)[dim] >= 0

\* Two jobs have filled a node: nothing is left of its CPU.
C2_Witness ==
    \E n \in NodeIDs :
        /\ Residual(stateAllocs, n).CPU = 0
        /\ \E a, b \in AllocsByNode(stateAllocs, n) : a.JobID # b.JobID

\* The records collected for job j.
RecordsOf(j) == {i \in DOMAIN jobEvaluations : jobEvaluations[i].JobMetrics.ID = j}

\* C3: when the run completes there are exactly NumJobs records, exactly one
\* per job, and the run does not leave the collection loop before every
\* goroutine has delivered its snapshot.
C3_ExactlyOneRecordPerJob ==
    mainpc \in {"write", "done"} =>
        /\ Len(jobEvaluations) = NumJobs
        /\ \A j \in JobIDs : Cardinality(RecordsOf(j)) = 1
        /\ \A j \in JobIDs : pc[j] = "exit"

\* The run completed and the output document holds the records.
C3_Witness ==
    /\ mainpc = "done"
    /\ Len(simOutput) = 1
    /\ Len(simOutput[1].JobEvaluations) = NumJobs

\* C4: when no scheduler invocation fails and goroutines keep being
\* scheduled, the run eventually completes.
C4_Termination == <>(mainpc = "done")

\* Two goroutines are blocked in the channel send at once, waiting for the
\* collection loop to receive.
C4_Witness ==
    \E j, k \in JobIDs :
        j # k /\ pc[j] = "send" /\ pc[k] = "send" /\ mainpc = "recv"

\* The plans in the plan history that belong to the evaluation of job j.
PlansOfJob(j) == {i \in DOMAIN Plans : Plans[i].EvalID = Evaluation(j).ID}

\* The successful allocations of task group g in plan p.
Successes(p, g) ==
    Cardinality(UNION {{<<n, i>> : i \in {k \in DOMAIN p.NodeAllocation[n] :
                                            p.NodeAllocation[n][k].TaskGroup = g}} :
                       n \in NodeIDs})

\* The failed-allocation records of record r that reference task group g.
FailedRecords(r, g) ==
    Cardinality({i \in DOMAIN r.FailedAllocsMetrics :
                    r.FailedAllocsMetrics[i].TaskGroup = g})

\* Declared count, times the number of nodes for a system job.
EffectiveCount(job, taskGroup) ==
    taskGroup.Count * (IF job.Type = JobTypeSystem THEN NumNodes ELSE 1)

\* The reported failures: a record r of jobEvaluations, its job, a plan p of
\* the job's evaluation and a task group tg of the job that p reports as
\* failed.
ReportedFailures ==
    UNION {UNION {{[r |-> jobEvaluations[i],
                    job |-> jobs[jobEvaluations[i].JobMetrics.ID],
                    p |-> Plans[pi],
                    tg |-> jobs[jobEvaluations[i].JobMetrics.ID].TaskGroups[t]] :
                      t \in {u \in DOMAIN jobs[jobEvaluations[i].JobMetrics.ID].TaskGroups :
                               \E fi \in DOMAIN Plans[pi].FailedAllocs :
                                  Plans[pi].FailedAllocs[fi].TaskGroup =
                                     jobs[jobEvaluations[i].JobMetrics.ID].TaskGroups[u].Name}} :
                  pi \in PlansOfJob(jobEvaluations[i].JobMetrics.ID)} :
           i \in DOMAIN jobEvaluations}

\* C5: a failure report for a task group of effective desired count N > 1
\* with S successful allocations in the same plan yields exactly N - S
\* failed-allocation records for that task group.
C5_MultiReplicaCorrection ==
    \A x \in ReportedFailures :
        EffectiveCount(x.job, x.tg) > 1 =>
            FailedRecords(x.r, x.tg.Name)
                = EffectiveCount(x.job, x.tg) - Successes(x.p, x.tg.Name)

\* A task group of desired count above one was placed in part, next to a
\* placed replica of another task group of the job: the missing replicas are
\* reported.
C5_Witness ==
    \E x \in ReportedFailures :
        /\ EffectiveCount(x.job, x.tg) > 1
        /\ Successes(x.p, x.tg.Name) >= 1
        /\ FailedRecords(x.r, x.tg.Name) >= 1
        /\ \E other \in DOMAIN x.job.TaskGroups :
              /\ x.job.TaskGroups[other].Name # x.tg.Name
              /\ Successes(x.p, x.job.TaskGroups[other].Name) >= 1

\* C6: a failure report for a task group of effective desired count 1 yields
\* exactly one failed-allocation record for that task group.
C6_SingleReplicaCorrection ==
    \A x \in ReportedFailures :
        EffectiveCount(x.job, x.tg) = 1 => FailedRecords(x.r, x.tg.Name) = 1

\* A single-replica task group failed in a job that has another task group.
C6_Witness ==
    \E x \in ReportedFailures :
        /\ EffectiveCount(x.job, x.tg) = 1
        /\ Len(x.job.TaskGroups) > 1
        /\ FailedRecords(x.r, x.tg.Name) = 1

\* C7: the failed records and the successes of a reported task group add up
\* to its declared count times the number of nodes for a system job, and to
\* its declared count for a batch or service job.
C7_EffectiveDesiredCount ==
    \A x \in ReportedFailures :
        FailedRecords(x.r, x.tg.Name) + Successes(x.p, x.tg.Name)
            = IF x.job.Type = JobTypeSystem THEN x.tg.Count * Len(nodeIDs)
              ELSE x.tg.Count

\* A system job with declared count 1 placed nothing: one failed record per
\* node.
C7_Witness ==
    \E x \in ReportedFailures :
        /\ x.job.Type = JobTypeSystem
        /\ x.tg.Count = 1
        /\ Successes(x.p, x.tg.Name) = 0
        /\ FailedRecords(x.r, x.tg.Name) = NumNodes

\* The residual capacity of node n as a resources record.
ResidualResources(allocs, n) ==
    SimResources(Residual(allocs, n).CPU, Residual(allocs, n).MemoryMB,
                 Residual(allocs, n).DiskMB, Residual(allocs, n).IOPS)

\* C8: the residual capacity computed for a node is, in every dimension,
\* total - reserved - the sum of the allocations recorded against the node in
\* the state container, whichever evaluation placed them; and the residual
\* capacity a record reports for a node is that value for the state container
\* the extraction reads.
C8_ResidualCapacity ==
    /\ [](\A n \in DOMAIN stateNodes :
             getAvailable(stateNodes[n], stateAllocs)
                 = ResidualResources(stateAllocs, n))
    /\ [][Len(jobEvaluations') = Len(jobEvaluations) + 1 =>
             \A u \in BagToSet(jobEvaluations'[Len(jobEvaluations')].NodeUsageChanges) :
                 u.Available = ResidualResources(stateAllocs, u.ID)]_vars

\* The run is over, and the record of a job reports for a node a residual
\* capacity that also counts the allocations an earlier evaluation placed
\* there, while another node with no allocation has total - reserved left.
C8_Witness ==
    /\ mainpc = "done"
    /\ \E i \in DOMAIN jobEvaluations :
          \E u \in BagToSet(jobEvaluations[i].NodeUsageChanges) :
             /\ \E a \in AllocsByNode(stateAllocs, u.ID) :
                   /\ a.JobID # jobEvaluations[i].JobMetrics.ID
                   /\ \E k \in 1..(i - 1) : jobEvaluations[k].JobMetrics.ID = a.JobID
             /\ u.Available = getAvailable(stateNodes[u.ID], stateAllocs)
             /\ u.Available #
                   getAvailable(stateNodes[u.ID],
                       {a \in stateAllocs : a.JobID = jobEvaluations[i].JobMetrics.ID})
    /\ \E n \in NodeIDs :
          /\ AllocsByNode(stateAllocs, n) = {}
          /\ getAvailable(stateNodes[n], stateAllocs)
                = Subtract(LoadNodeFile(n).Resources, LoadNodeFile(n).Reserved)

\* The nodes that received a successful allocation in the evaluation of job j.
Touched(j) ==
    {n \in NodeIDs :
        \E pi \in PlansOfJob(j) : Len(Plans[pi].NodeAllocation[n]) > 0}

\* C9: the record of a job holds exactly one residual-capacity record for
\* every node that received a successful allocation in the job's evaluation,
\* and none for any other node.
C9_OneUsageChangePerTouchedNode ==
    \A i \in DOMAIN jobEvaluations :
        LET r == jobEvaluations[i]
        IN /\ {u.ID : u \in BagToSet(r.NodeUsageChanges)} = Touched(r.JobMetrics.ID)
           /\ BagCardinality(r.NodeUsageChanges) = Cardinality(Touched(r.JobMetrics.ID))

\* A job placed two allocations on one node and none on another: its record
\* holds the one residual-capacity record.
C9_Witness ==
    \E i \in DOMAIN jobEvaluations :
        LET r == jobEvaluations[i]
        IN /\ \E pi \in PlansOfJob(r.JobMetrics.ID) :
                 \E n \in NodeIDs : Len(Plans[pi].NodeAllocation[n]) >= 2
           /\ Touched(r.JobMetrics.ID) # NodeIDs
           /\ BagCardinality(r.NodeUsageChanges) = 1

\* C10: a snapshot is a point-in-time capture: from the moment the snapshot of
\* job j is built until its metrics are extracted, the residual capacities
\* its extraction reports do not change, whatever other jobs place meanwhile.
C10_PointInTimeSnapshot ==
    [][\A j \in JobIDs :
          (pc[j] = "send" /\ pc'[j] = "send") =>
              getMetrics(simSnapshot'[j], stateNodes', stateJobs', stateAllocs').NodeUsageChanges
                  = getMetrics(simSnapshot[j], stateNodes, stateJobs, stateAllocs).NodeUsageChanges]_vars

\* C11: no allocation is counted twice in the residual capacity of a node:
\* whenever the state container changes, the residual capacity of every node
\* drops by exactly the resources of the allocations newly recorded on it, and
\* a record just extracted differs from every earlier record for the same node
\* by exactly the allocations the earlier residual did not yet count.
C11_NoDoubleCounting ==
    /\ [][\A n \in DOMAIN stateNodes : \A dim \in Dimensions :
             getAvailable(stateNodes[n], stateAllocs)[dim]
                 - getAvailable(stateNodes'[n], stateAllocs')[dim]
               = Consumed(stateAllocs' \ stateAllocs, n, dim)]_vars
    /\ [][Len(jobEvaluations') = Len(jobEvaluations) + 1 =>
             \A u \in BagToSet(jobEvaluations'[Len(jobEvaluations')].NodeUsageChanges) :
                \A k \in DOMAIN jobEvaluations :
                   \A e \in BagToSet(jobEvaluations[k].NodeUsageChanges) :
                      e.ID = u.ID =>
                         \E earlier \in SUBSET AllocsByNode(stateAllocs, u.ID) :
                            /\ e.Available = ResidualResources(earlier, u.ID)
                            /\ \A dim \in Dimensions :
                                  e.Available[dim] - u.Available[dim]
                                     = Consumed(stateAllocs \ earlier, u.ID, dim)]_vars

\* Two jobs placed on the same node and the first record was extracted before
\* the second job's plan was applied: the two residuals differ by exactly
\* what the second job's allocations on the node consume.
C11_Witness ==
    /\ mainpc = "done"
    /\ \E i, k \in DOMAIN jobEvaluations :
          /\ i < k
          /\ \E e \in BagToSet(jobEvaluations[i].NodeUsageChanges) :
                \E u \in BagToSet(jobEvaluations[k].NodeUsageChanges) :
                   /\ e.ID = u.ID
                   /\ e.Available.CPU - u.Available.CPU > 0
                   /\ \A dim \in Dimensions :
                         e.Available[dim] - u.Available[dim]
                            = Consumed({a \in stateAllocs :
                                           a.JobID = jobEvaluations[k].JobMetrics.ID},
                                       u.ID, dim)

\* The successful allocations of the plans of the evaluation of job j, as
\* the set of their metrics views.
SuccessfulOfJob(j) ==
    UNION {{ParseAllocMetrics(Plans[x[1]].NodeAllocation[x[2]][k]) :
               k \in DOMAIN Plans[x[1]].NodeAllocation[x[2]]} :
           x \in PlansOfJob(j) \X NodeIDs}

\* How many successful allocations the plans of the evaluation of job j hold.
NumSuccessfulOfJob(j) ==
    LET RECURSIVE Sum(_)
        Sum(S) == IF S = {} THEN 0
                  ELSE LET x == CHOOSE y \in S : TRUE
                       IN Len(Plans[x[1]].NodeAllocation[x[2]]) + Sum(S \ {x})
    IN Sum(PlansOfJob(j) \X NodeIDs)

\* C12: the successful and failed allocation records of a job's record come
\* only from the plans of that job's evaluation: every successful allocation
\* of those plans appears exactly once, and nothing of another evaluation's
\* plan appears, wherever the plan stands in the plan history.
C12_EvaluationIsolation ==
    \A i \in DOMAIN jobEvaluations :
        LET r == jobEvaluations[i]
            j == r.JobMetrics.ID
        IN /\ BagToSet(r.SuccessfulAllocsMetrics) = SuccessfulOfJob(j)
           /\ BagCardinality(r.SuccessfulAllocsMetrics) = NumSuccessfulOfJob(j)
           /\ \A fi \in DOMAIN r.FailedAllocsMetrics :
                 /\ r.FailedAllocsMetrics[fi].JobID = j
                 /\ \E pi \in PlansOfJob(j) :
                       \E k \in DOMAIN Plans[pi].FailedAllocs :
                          ParseAllocMetrics(Plans[pi].FailedAllocs[k])
                             = r.FailedAllocsMetrics[fi]

\* The plan of the job stands second in the plan history, after a plan of
\* another evaluation that placed allocations, and the job's record holds its
\* own successful allocations.
C12_Witness ==
    \E i \in DOMAIN jobEvaluations :
        LET r == jobEvaluations[i]
            j == r.JobMetrics.ID
        IN /\ PlansOfJob(j) = {2}
           /\ \E n \in NodeIDs : Len(Plans[1].NodeAllocation[n]) > 0
           /\ BagCardinality(r.SuccessfulAllocsMetrics) >= 1
           /\ Len(r.FailedAllocsMetrics) >= 1

\* The placement times of the successful allocations of the plans of the
\* evaluation of job j.
PlacementTimes(j) == {a.AllocationTime : a \in SuccessfulOfJob(j)}

Max(S) == CHOOSE x \in S : \A y \in S : y <= x

C14_NoPlanRecord ==
    \A i \in DOMAIN jobEvaluations :
        LET r == jobEvaluations[i]
        IN PlansOfJob(r.JobMetrics.ID) = {} =>
              /\ r.SuccessfulAllocsMetrics = EmptyBag
              /\ r.FailedAllocsMetrics = <<>>
              /\ r.NodeUsageChanges = EmptyBag
              /\ r.JobMetrics.FinalTimestamp = -1

\* C15: the start timestamp of every record extracted is the start timestamp
\* carried in the snapshot it was extracted from.
C15_RecordTimestamped ==
    [][Len(jobEvaluations') = Len(jobEvaluations) + 1 =>
          jobEvaluations'[Len(jobEvaluations')].JobMetrics.StartTimestamp
              = snapshot.Time]_vars

\* C16: the bodies of SubmitPlan, CreateEval and UpdateEval never overlap:
\* at most one goroutine is inside SubmitPlan and it holds the plan lock, no
\* evaluation is stored while the lock is held, every plan is appended by the
\* submission that just took the lock, so that the plan history is in the
\* order the lock was taken, and every submitted plan is in it exactly once.
C16_PlanSubmissionsSerialized ==
    /\ [](/\ \A j, k \in JobIDs :
                (pc[j] \in {"index", "apply"} /\ pc[k] \in {"index", "apply"})
                    => j = k
          /\ \A j \in JobIDs : pc[j] \in {"index", "apply"} <=> planLock = j
          /\ \A j \in JobIDs :
                Cardinality(PlansOfJob(j))
                    = IF pc[j] \in {"process", "submit"} THEN 0 ELSE 1)
    /\ [][(Evals' # Evals \/ CreateEvals' # CreateEvals) =>
             (planLock = 0 /\ planLock' = 0)]_vars
    /\ [][Plans' # Plans =>
             /\ planLock = 0
             /\ planLock' # 0
             /\ Plans' = Append(Plans, plan[planLock'])]_vars

\* A scheduler is about to submit its plan while another is inside SubmitPlan
\* and holds the plan lock.
C16_Witness ==
    \E j, k \in JobIDs :
        /\ j # k
        /\ pc[j] = "apply" /\ planLock = j
        /\ pc[k] = "submit"
        /\ Len(Plans) >= 1

\* C17: SubmitPlan appends the plan to the plan history and takes one fresh
\* version v; on success every allocation of the plan, placed or failed, is in
\* the state container, recorded under v, and the result returned carries v as
\* its allocation index.
C17_SubmitPlanApplies ==
    /\ [][\A j \in JobIDs :
             (pc[j] = "submit" /\ pc'[j] = "index") =>
                Plans' = Append(Plans, plan[j])]_vars
    /\ [][\A j \in JobIDs :
             (pc[j] = "index" /\ pc'[j] = "apply") =>
                /\ Plans[Len(Plans)] = plan[j]
                /\ index'[j] = nextIndex
                /\ nextIndex' = nextIndex + 1
                /\ index'[j] \notin {stateIndex.nodes, stateIndex.jobs,
                                     stateIndex.allocs}]_vars
    /\ [][\A j \in JobIDs :
             (pc[j] = "apply" /\ pc'[j] = "update") =>
                /\ Flatten(plan[j]) \subseteq stateAllocs'
                /\ stateAllocs' \ stateAllocs \subseteq Flatten(plan[j])
                /\ stateIndex'.allocs = index[j]
                /\ result'[j].AllocIndex = index[j]
                /\ result'[j].NodeAllocation = plan[j].NodeAllocation]_vars

\* SubmitPlan just returned for a plan that holds placed and failed
\* allocations: all of them are in the state container under the version the
\* result carries.
C17_Witness ==
    \E j \in JobIDs :
        /\ pc[j] = "update"
        /\ result[j] # NoResult
        /\ result[j].AllocIndex = stateIndex.allocs
        /\ Plans[Len(Plans)].EvalID = Evaluation(j).ID
        /\ Plans[Len(Plans)].FailedAllocs # <<>>
        /\ \E n \in NodeIDs : Plans[Len(Plans)].NodeAllocation[n] # <<>>
        /\ Flatten(Plans[Len(Plans)]) \subseteq stateAllocs

\* C18: SubmitPlan never applies part of a plan: when it returns, either every
\* allocation of the plan is in the state container and the call succeeded,
\* or the call failed and the state container holds none of them.
C18_NoPartialApplication ==
    [][\A j \in JobIDs :
          (pc[j] = "apply" /\ (pc'[j] # "apply" \/ planLock' # planLock)) =>
             \/ /\ pc'[j] = "update"
                /\ mainpc' # "panic"
                /\ Flatten(plan[j]) \subseteq stateAllocs'
             \/ /\ pc'[j] = "submiterr"
                /\ Flatten(plan[j]) \cap stateAllocs' = {}
                /\ stateAllocs' = stateAllocs]_vars

\* SubmitPlan failed for a plan with placed allocations: the plan is in the
\* plan history and none of its allocations is in the state container.
C18_Witness ==
    \E j \in JobIDs :
        /\ pc[j] = "submiterr"
        /\ planLock = 0
        /\ \E n \in NodeIDs : plan[j].NodeAllocation[n] # <<>>
        /\ Plans[Len(Plans)] = plan[j]
        /\ Flatten(plan[j]) \cap stateAllocs = {}

\* C19: NextIndex hands out 1, 2, 3, ... : every call returns the value of
\* the counter and leaves it one higher, the counter is always one more than
\* the number of calls made so far, and the values goroutines hold at the same
\* time are distinct and below the counter.
C19_NextIndexCounter ==
    /\ [](/\ nextIndex = 1 + Len(nodeIDs) + Len(Plans)
                          + Cardinality({j \in JobIDs : pc[j] \notin {"idle", "start"}})
                          - Cardinality({j \in JobIDs : pc[j] = "index"})
          /\ \A j \in JobIDs : index[j] < nextIndex
          /\ \A j, k \in JobIDs :
                (j # k /\ index[j] # 0) => index[j] # index[k])
    /\ [][\A j \in JobIDs :
             (pc[j] \in {"start", "index"} /\ pc'[j] # pc[j]) =>
                /\ index'[j] = nextIndex
                /\ nextIndex' = nextIndex + 1]_vars
    /\ [][Len(nodeIDs') # Len(nodeIDs) =>
             /\ stateIndex'.nodes = nextIndex
             /\ nextIndex' = nextIndex + 1]_vars

\* One goroutine is inside SubmitPlan with the version it took while another
\* holds the version it took for its job: the two values differ.
C19_Witness ==
    \E j, k \in JobIDs :
        /\ pc[j] = "apply" /\ pc[k] = "upsert"
        /\ index[j] # 0 /\ index[k] # 0
        /\ index[j] < index[k]

\* C20: the upserts reach the state container with strictly increasing
\* versions: whenever a table of the state container is written, the version
\* it is written under is larger than every version a table was written under
\* before.
C20_MonotonicVersions ==
    [][\A t \in DOMAIN stateIndex :
          stateIndex'[t] # stateIndex[t] =>
              \A u \in DOMAIN stateIndex : stateIndex'[t] > stateIndex[u]]_vars

\* C21: NextIndex takes only its own lock.  Whoever holds the plan lock, a
\* goroutine that is at a call of NextIndex is able to complete it: the
\* goroutine that starts its job, and the goroutine inside SubmitPlan whose
\* custom planner (RejectPlan) calls NextIndex with the plan lock held.
C21_NextIndexNeverBlocksOnPlanLock ==
    \A j \in JobIDs :
        /\ pc[j] = "index" =>
              /\ planLock = j
              /\ ENABLED RejectPlanSubmitPlan(j)
        /\ (pc[j] = "start" /\ Running) => ENABLED Start(j)

\* A goroutine is inside SubmitPlan for its second plan, holding the plan
\* lock and about to call NextIndex through the planner, while another
\* goroutine is at the call of NextIndex that starts its job.
C21_Witness ==
    \E j, k \in JobIDs :
        /\ j # k
        /\ pc[j] = "index" /\ planLock = j
        /\ result[j] # NoResult
        /\ pc[k] = "start"
        /\ ENABLED Start(k)
        /\ ENABLED RejectPlanSubmitPlan(j)

\* C22: UpdateEval and CreateEval only keep records.  A step that stores an
\* evaluation runs with the plan lock free before and after it, appends one
\* evaluation to the history of the call made (UpdateEval to Evals, CreateEval
\* to CreateEvals) and leaves the other history, the plan history, the nodes,
\* jobs and allocations of the state container, the versions they were
\* written under, and the version counter as they were.
C22_EvalsRecordKeepingOnly ==
    [][(Evals' # Evals \/ CreateEvals' # CreateEvals) =>
          /\ planLock = 0 /\ planLock' = 0
          /\ \/ /\ \E j \in JobIDs : Evals' = Append(Evals, Evaluation(j))
                /\ CreateEvals' = CreateEvals
             \/ /\ \E j \in JobIDs :
                      /\ Len(CreateEvals') = Len(CreateEvals) + 1
                      /\ SubSeq(CreateEvals', 1, Len(CreateEvals)) = CreateEvals
                      /\ CreateEvals'[Len(CreateEvals')].JobID = j
                /\ Evals' = Evals
          /\ Plans' = Plans
          /\ stateNodes' = stateNodes
          /\ stateJobs' = stateJobs
          /\ stateAllocs' = stateAllocs
          /\ stateIndex' = stateIndex
          /\ nextIndex' = nextIndex]_vars

\* Both histories hold an evaluation, next to a plan history and a state
\* container that hold the plan of a submission made before.
C22_Witness ==
    /\ Evals # <<>>
    /\ CreateEvals # <<>>
    /\ Plans # <<>>
    /\ stateAllocs # {}
    /\ nextIndex > 1 + NumNodes + NumJobs

\* C23: a failure of the allocation upsert is what SubmitPlan returns, and
\* a submission makes one upsert attempt.  The step of SubmitPlan that follows
\* the taking of the version ends the call: it either records the allocations
\* and returns the result, or returns the error with the plan lock released
\* and the state container as it was; a scheduler that was handed the error
\* submits no plan again, and no plan is in the plan history twice.
C23_UpsertFailureReturnedOnce ==
    /\ [][\A j \in JobIDs :
             (pc[j] = "apply" /\ pc'[j] # pc[j]) =>
                /\ planLock' = 0
                /\ \/ /\ pc'[j] = "update"
                      /\ stateIndex'.allocs = index[j]
                   \/ /\ pc'[j] = "submiterr"
                      /\ storeVars' = storeVars
                      /\ Plans' = Plans
                      /\ nextIndex' = nextIndex]_vars
    /\ [][\A j \in JobIDs :
             pc[j] = "submiterr" =>
                /\ pc'[j] \in {"submiterr", "error"}
                /\ stateAllocs' = stateAllocs]_vars
    /\ [](\A j \in JobIDs : Cardinality(PlansOfJob(j)) <= 1)

\* The upsert of a plan with placed allocations failed after another job's
\* plan was applied: SubmitPlan returned the error, the lock is free and the
\* state container holds the other job's allocations only.
C23_Witness ==
    \E j, k \in JobIDs :
        /\ j # k
        /\ pc[j] = "submiterr"
        /\ planLock = 0
        /\ \E n \in NodeIDs : plan[j].NodeAllocation[n] # <<>>
        /\ stateAllocs # {}
        /\ \A a \in stateAllocs : a.JobID = k
        /\ Cardinality(PlansOfJob(j)) = 1

\* C24: the state container is append-only with respect to allocations: no
\* step of the run removes or replaces an allocation that was recorded, so
\* the set of recorded allocations only grows.
C24_AllocationsAppendOnly ==
    [][/\ stateAllocs \subseteq stateAllocs'
       /\ \A a \in stateAllocs' \ stateAllocs :
             \A b \in stateAllocs : b.ID # a.ID]_vars

\* The allocations of two jobs' plans are recorded, placed and failed ones,
\* after the second plan was applied on top of the first.
C24_Witness ==
    \E j, k \in JobIDs :
        /\ j # k
        /\ pc[k] = "update" /\ result[k] # NoResult
        /\ \E a \in stateAllocs : a.JobID = j
        /\ \E a \in stateAllocs : a.JobID = k
        /\ \E a \in stateAllocs : a.DesiredStatus = AllocDesiredStatusFailed
        /\ \A i \in DOMAIN Plans : Flatten(Plans[i]) \subseteq stateAllocs

\* The successful allocations of the plans of evaluation e in a plan history.
SuccessfulOfEval(plans, e) ==
    UNION {Range(plans[i].NodeAllocation[n]) :
              i \in {k \in DOMAIN plans : plans[k].EvalID = e}, n \in NodeIDs}

\* C25: every node is in the state container before a job goroutine starts,
\* every job is in it before its scheduler is invoked, and so, once a
\* goroutine has taken its snapshot and for as long as the record is not yet
\* extracted from it, the job and the node of every successful allocation in
\* the plans of the snapshot's evaluation resolve in the state container.
C25_AllocationIDsResolve ==
    /\ (\E j \in JobIDs : pc[j] # "idle") => DOMAIN stateNodes = NodeIDs
    /\ \A j \in JobIDs :
          pc[j] \notin {"idle", "start", "upsert"} =>
              /\ j \in DOMAIN stateJobs
              /\ stateJobs[j] = jobs[j]
    /\ \A j \in JobIDs :
          pc[j] = "send" =>
              \A a \in SuccessfulOfEval(simSnapshot[j].Plans,
                                         simSnapshot[j].Eval.ID) :
                  /\ a.NodeID \in DOMAIN stateNodes
                  /\ a.JobID \in DOMAIN stateJobs
    /\ mainpc = "metrics" =>
          \A a \in SuccessfulOfEval(snapshot.Plans, snapshot.Eval.ID) :
              /\ a.NodeID \in DOMAIN stateNodes
              /\ a.JobID \in DOMAIN stateJobs

\* A goroutine has taken its snapshot, whose plan places allocations, while
\* another job is not yet in the state container.
C25_Witness ==
    \E j, k \in JobIDs :
        /\ pc[j] = "send"
        /\ SuccessfulOfEval(simSnapshot[j].Plans, simSnapshot[j].Eval.ID) # {}
        /\ pc[k] \in {"start", "upsert"}
        /\ k \notin DOMAIN stateJobs

\* C26: a scheduler processing error for one job is fatal to the whole run.
\* Once a job's scheduler invocation has failed the program has stopped: no
\* output document was or is written, and no record is collected any more,
\* so the records collected before the failure are never output.
C26_SchedulerErrorFatalToRun ==
    /\ [](\A j \in JobIDs :
             pc[j] = "error" => (mainpc = "panic" /\ simOutput = <<>>))
    /\ [][(\E j \in JobIDs : pc[j] = "error") =>
             /\ simOutput' = simOutput
             /\ jobEvaluations' = jobEvaluations
             /\ mainpc' = mainpc]_vars

\* A job's scheduler invocation failed after the record of another job was
\* collected: the program has stopped and nothing was written.
C26_Witness ==
    \E j \in JobIDs :
        /\ pc[j] = "error"
        /\ mainpc = "panic"
        /\ jobEvaluations # <<>>
        /\ simOutput = <<>>

\* C27, as stated: a scheduler processing error is fatal for that job only.
\* After the failure of one job's scheduler invocation another job that has
\* not yet reached its own invocation is still able to take its next step
\* towards it.
C27_ErrorFatalForThatJobOnly ==
    \A j, k \in JobIDs :
        (pc[j] = "error" /\ k # j /\ pc[k] \in {"start", "upsert"})
            => ENABLED JobStep(k)

\* C27, amended: a scheduler processing error is fatal for every job.  After
\* the failure of one job's scheduler invocation no goroutine takes a step:
\* no other job is scheduled, no plan is submitted or applied, no snapshot is
\* sent and no record is collected.
C27_ErrorFatalForEveryJob ==
    /\ [](\A j \in JobIDs :
             pc[j] = "error" =>
                /\ \A k \in JobIDs : ~ENABLED JobStep(k)
                /\ ~ENABLED MainStep)
    /\ [][(\E j \in JobIDs : pc[j] = "error") =>
             /\ pc' = pc
             /\ Plans' = Plans
             /\ Evals' = Evals
             /\ storeVars' = storeVars
             /\ simSnapshot' = simSnapshot]_vars

\* A job's scheduler invocation failed while another job had not been
\* scheduled yet: that job is never scheduled.
C27_Witness ==
    \E j, k \in JobIDs :
        /\ pc[j] = "error"
        /\ k # j
        /\ pc[k] \in {"start", "upsert", "lock"}
        /\ PlansOfJob(k) = {}
        /\ ~ENABLED JobStep(k)

\* C28: no error of a lower layer is masked.  A step in which a call of the
\* state container fails stops the run without a record being added, and a
\* scheduler that was handed the error of the allocation upsert ends in the
\* stop of the run.
C28_LowerLayerErrorsAbort ==
    /\ [][StoreError =>
             /\ mainpc' = "panic"
             /\ jobEvaluations' = jobEvaluations]_vars
    /\ [][\A j \in JobIDs :
             (pc[j] = "submiterr" /\ pc'[j] # pc[j]) => mainpc' = "panic"]_vars

\* C29: the residual-capacity query is read-only and idempotent.  The step
\* that extracts a record, which queries every changed node, leaves the
\* nodes, jobs and allocations of the state container as they were, and the
\* same query made again after it returns the value the record reports.
C29_ResidualQueryReadOnly ==
    [][Len(jobEvaluations') = Len(jobEvaluations) + 1 =>
          /\ stateNodes' = stateNodes
          /\ stateJobs' = stateJobs
          /\ stateAllocs' = stateAllocs
          /\ stateIndex' = stateIndex
          /\ \A u \in BagToSet(
                    jobEvaluations'[Len(jobEvaluations')].NodeUsageChanges) :
                u.Available = getAvailable(stateNodes'[u.ID], stateAllocs')]_vars

\* Two records were extracted with no allocation recorded in between: both
\* queried a node that holds allocations, and both report the same value,
\* which is the value the query returns now.
C29_Witness ==
    /\ Len(jobEvaluations) = 2
    /\ \E u \in BagToSet(jobEvaluations[1].NodeUsageChanges) :
          /\ u \in BagToSet(jobEvaluations[2].NodeUsageChanges)
          /\ AllocsByNode(stateAllocs, u.ID) # {}
          /\ u.Available = getAvailable(stateNodes[u.ID], stateAllocs)
          /\ u.Available # Subtract(stateNodes[u.ID].Resources,
                                    stateNodes[u.ID].Reserved)

\* The reported failures of the scenario: a service job with one task group
\* of count 3, whose evaluation has one plan, with two placed replicas and
\* one failure report.
PartlyPlacedTriples ==
    {x \in ReportedFailures :
        /\ x.job.Type = JobTypeService
        /\ Len(x.job.TaskGroups) = 1
        /\ x.tg.Count = 3
        /\ Cardinality(PlansOfJob(x.job.ID)) = 1
        /\ Successes(x.p, x.tg.Name) = 2
        /\ Len(x.p.FailedAllocs) = 1}

\* C30, as stated: the record of the scenario shows two successful
\* allocations and exactly one failed allocation, and the failed record comes
\* from the count=1 path, the branch taken when totalCount is 1.
C30_OneFailedRecordByCountOnePath ==
    \A x \in PartlyPlacedTriples :
        /\ BagCardinality(x.r.SuccessfulAllocsMetrics) = 2
        /\ Len(x.r.FailedAllocsMetrics) = 1
        /\ TotalCount(x.job, x.tg, nodeIDs) = 1

\* C30, amended: the record of the scenario shows two successful allocations
\* and exactly one failed allocation, and the failed record comes from the
\* multi-count correction path: totalCount is 3, not 1, and the number of
\* failed records is totalCount minus the successCount of 2.
C30_OneFailedRecordByMultiCountPath ==
    \A x \in PartlyPlacedTriples :
        /\ BagCardinality(x.r.SuccessfulAllocsMetrics) = 2
        /\ Len(x.r.FailedAllocsMetrics) = 1
        /\ TotalCount(x.job, x.tg, nodeIDs) = 3
        /\ SuccessCount(PlanAllocs(x.p, nodeIDs), x.tg.Name) = 2
        /\ x.r.FailedAllocsMetrics
              = Copies(TotalCount(x.job, x.tg, nodeIDs)
                         - SuccessCount(PlanAllocs(x.p, nodeIDs), x.tg.Name),
                       ParseAllocMetrics(x.p.FailedAllocs[1]))

\* The record of the scenario was extracted: two replicas on one node, one
\* failed record.
C30_Witness ==
    \E x \in PartlyPlacedTriples :
        /\ \E n \in NodeIDs : Len(x.p.NodeAllocation[n]) = 2
        /\ BagCardinality(x.r.SuccessfulAllocsMetrics) = 2
        /\ Len(x.r.FailedAllocsMetrics) = 1

\* C31: when the node-list flag or the job-list flag is missing, Run returns
\* a non-zero exit code as its first step, and nothing else ever happens: no
\* node or job is registered, no version is taken from the harness, no
\* goroutine is started, no plan is submitted and no output is written.
C31_MissingFlagIsUsageError ==
    (args.nodeList = "" \/ args.jobList = "") =>
        /\ mainpc \in {"flags", "return1"}
        /\ nextIndex = 1
        /\ nodeIDs = <<>> /\ stateNodes = <<>> /\ stateJobs = <<>>
        /\ stateAllocs = {}
        /\ \A j \in JobIDs : pc[j] = "idle"
        /\ Plans = <<>> /\ Evals = <<>>
        /\ jobEvaluations = <<>>
        /\ simOutput = <<>>

\* Run returned 1 with the node list given and the job list missing.
C31_Witness ==
    /\ args.nodeList # ""
    /\ args.jobList = ""
    /\ mainpc = "return1"
    /\ simOutput = <<>>

\* C32: a node loaded from a node file, HCL or JSON, has the fields the file
\* declares: every node registered in the state container and every node of
\* the output roster has the resources, the reserved resources and the ID of
\* its file.
C32_NodeFieldsFromFile ==
    /\ \A n \in DOMAIN stateNodes :
          /\ stateNodes[n].Resources = NodeFiles(n).Resources
          /\ stateNodes[n].Reserved = NodeFiles(n).Reserved
          /\ stateNodes[n].ID = NodeFiles(n).ID
    /\ \A i \in DOMAIN outputNodes :
          /\ outputNodes[i].Resources = NodeFiles(nodeIDs[i]).Resources
          /\ outputNodes[i].Reserved = NodeFiles(nodeIDs[i]).Reserved
          /\ outputNodes[i].ID = NodeFiles(nodeIDs[i]).ID

\* The order of the steps of a job's pipeline: each position and the
\* positions that may follow it (a failed scheduler invocation ends in
\* "error").
PipelineOrder ==
    {<<"idle", "start">>, <<"start", "upsert">>, <<"upsert", "lock">>,
     <<"lock", "process">>, <<"process", "submit">>, <<"process", "update">>,
     <<"submit", "index">>, <<"index", "apply">>, <<"apply", "update">>,
     <<"apply", "submiterr">>, <<"update", "unlock">>, <<"unlock", "build">>,
     <<"build", "send">>, <<"send", "exit">>,
     <<"process", "error">>, <<"submiterr", "error">>, <<"update", "error">>}

\* C33: the steps of one job's pipeline follow one another in the order start
\* timestamp, job upsert under a fresh version (with the evaluation), mutex
\* acquisition, scheduler invocation, mutex release, snapshot build, snapshot
\* send.  The timestamp is taken before the job is in the state container;
\* the job is in the state container before the mutex is asked for; the
\* scheduler runs with the mutex held; and the snapshot is built after the
\* scheduler has updated the evaluation and the mutex was released, with the
\* timestamp taken at the start.
C33_PipelineSequential ==
    /\ [][\A j \in JobIDs :
             pc'[j] # pc[j] => <<pc[j], pc'[j]>> \in PipelineOrder]_vars
    /\ [](\A j \in JobIDs :
             /\ pc[j] \in {"idle", "start"} =>
                   (startTimestamp[j] = 0 /\ j \notin DOMAIN stateJobs)
             /\ pc[j] = "upsert" =>
                   /\ startTimestamp[j] = UnixNano(j)
                   /\ index[j] # 0
                   /\ j \notin DOMAIN stateJobs
             /\ pc[j] = "lock" => (j \in DOMAIN stateJobs /\ mutex # j)
             /\ pc[j] \in {"process", "submit", "index", "apply", "update",
                            "unlock"} =>
                   (mutex = j /\ simSnapshot[j] = NoSnapshot)
             /\ pc[j] \in {"build", "send"} =>
                   /\ mutex # j
                   /\ \E i \in DOMAIN Evals : Evals[i] = Evaluation(j)
             /\ pc[j] = "send" =>
                   /\ simSnapshot[j].Time = UnixNano(j)
                   /\ simSnapshot[j].Eval = Evaluation(j))

\* A goroutine went through its pipeline with a plan submitted and is about
\* to send its snapshot.
C33_Witness ==
    \E j \in JobIDs :
        /\ pc[j] = "send"
        /\ simSnapshot[j].Time = UnixNano(j)
        /\ PlansOfJob(j) # {}
        /\ j \in DOMAIN stateJobs
        /\ mutex # j

\* C34: the scheduling mutex guards the scheduler invocation only.  The
\* mutex is held by no goroutine that is before its invocation (taking its
\* timestamp, upserting its job, waiting for the mutex) or after it (building
\* its snapshot, blocked in the channel send, finished); the job whose record
\* is being extracted does not hold it; and the extraction is able to
\* proceed whoever holds the mutex.
C34_MutexGuardsSchedulingOnly ==
    /\ \A j \in JobIDs :
          pc[j] \in {"idle", "start", "upsert", "lock", "build", "send", "exit"}
              => mutex # j
    /\ mainpc = "metrics" =>
          /\ mutex # snapshot.Eval.JobID
          /\ ENABLED GetMetrics

\* The record of one job is being extracted while another job holds the
\* mutex inside SubmitPlan, and a third step, the extraction, is enabled.
C34_Witness ==
    \E j, k \in JobIDs :
        /\ j # k
        /\ mainpc = "metrics"
        /\ snapshot.Eval.JobID = j
        /\ mutex = k
        /\ pc[k] = "apply"
        /\ ENABLED GetMetrics

(***************************************************************************)
(* C35: every job of type system, batch or service has one evaluation, and *)
(* its goroutine hands that evaluation to h.Process exactly once, with the *)
(* scheduler factory of the job's type: nothing before the mutex is taken, *)
(* one call from then on, never a second one, and never the evaluation of  *)
(* another job.                                                            *)
(***************************************************************************)
C35_OneMatchingInvocation ==
    \A j \in JobIDs :
        /\ jobs[j].Type \in JobTypes
        /\ Len(invoked[j]) <= 1
        /\ pc[j] \in {"idle", "start", "upsert", "lock"} => invoked[j] = <<>>
        /\ pc[j] \notin {"idle", "start", "upsert", "lock"} => Len(invoked[j]) = 1
        /\ \A i \in DOMAIN invoked[j] :
              /\ invoked[j][i].Eval = Evaluation(j).ID
              /\ jobs[j].Type = JobTypeSystem
                    => invoked[j][i].Scheduler = "NewSystemScheduler"
              /\ jobs[j].Type = JobTypeBatch
                    => invoked[j][i].Scheduler = "NewBatchScheduler"
              /\ jobs[j].Type = JobTypeService
                    => invoked[j][i].Scheduler = "NewServiceScheduler"
        /\ \A k \in JobIDs \ {j} : \A i \in DOMAIN invoked[k] :
              invoked[k][i].Eval # Evaluation(j).ID

\* Two jobs of different types have both run to the end, one of them a
\* system job, each with its one call.
C35_Witness ==
    \E j, k \in JobIDs :
        /\ jobs[j].Type = JobTypeSystem
        /\ jobs[k].Type # JobTypeSystem
        /\ pc[j] = "exit"
        /\ pc[k] = "exit"
        /\ invoked[j] = <<[Eval |-> Evaluation(j).ID, Scheduler |-> "NewSystemScheduler"]>>
        /\ Len(invoked[k]) = 1

\* The plans of a plan list that were submitted for evaluation e, in order.
PlansOfEval(plans, e) ==
    SelectSeq(plans, LAMBDA p : p.EvalID = e)

(***************************************************************************)
(* C36: the plan list captured in a job's snapshot holds every plan that   *)
(* was submitted for that job's evaluation, whatever the other goroutines  *)
(* did in between: the job's own plans in the snapshot, built or already   *)
(* received by the metrics loop, are the job's own plans in the history of *)
(* the harness.  Plans of other jobs may stand before them.                *)
(***************************************************************************)
C36_SnapshotHoldsOwnPlans ==
    /\ \A j \in JobIDs :
          simSnapshot[j] # NoSnapshot =>
              PlansOfEval(simSnapshot[j].Plans, Evaluation(j).ID)
                  = PlansOfEval(Plans, Evaluation(j).ID)
    /\ snapshot # NoSnapshot =>
          PlansOfEval(snapshot.Plans, snapshot.Eval.ID)
              = PlansOfEval(Plans, snapshot.Eval.ID)

\* The snapshot of job j holds a plan of another job followed by its own,
\* and the other job has not built its snapshot yet.
C36_Witness ==
    \E j, k \in JobIDs :
        /\ j # k
        /\ pc[j] = "send"
        /\ pc[k] \in {"index", "apply", "update", "unlock", "build"}
        /\ Len(simSnapshot[j].Plans) = 2
        /\ simSnapshot[j].Plans[1].EvalID = Evaluation(k).ID
        /\ simSnapshot[j].Plans[2].EvalID = Evaluation(j).ID

(***************************************************************************)
(* C37: the plan history of the harness is only accessed under the plan    *)
(* lock: in no reachable state is the next step of one goroutine the read  *)
(* of h.Plans that builds its snapshot while the next step of another      *)
(* goroutine is the append of SubmitPlan to h.Plans.                       *)
(***************************************************************************)
C37_PlanHistoryAccessLocked ==
    \A j, k \in JobIDs :
        j # k => ~(ENABLED BuildSnapshot(j) /\ ENABLED SubmitPlanLock(k))

\* The larger of two integers.
Largest(a, b) == IF a >= b THEN a ELSE b

(***************************************************************************)
(* C38: the correction of the failure count never invents a record and     *)
(* never counts below zero.  For a failure report on a task group of       *)
(* effective desired count N other than 1, with S successful allocations   *)
(* of that task group in the same plan, the record of the job holds        *)
(* max(0, N - S) failed records for the task group: none when S >= N, and  *)
(* none when N = 0.                                                        *)
(***************************************************************************)
C38_FailedCountNeverNegative ==
    \A x \in ReportedFailures :
        LET N == EffectiveCount(x.job, x.tg)
            S == Successes(x.p, x.tg.Name)
        IN N # 1 =>
              /\ FailedRecords(x.r, x.tg.Name) = Largest(0, N - S)
              /\ S >= N => FailedRecords(x.r, x.tg.Name) = 0
              /\ N = 0 => FailedRecords(x.r, x.tg.Name) = 0

\* A record was extracted from a plan that reports a failure for a task
\* group of count 0 and for a task group with more successes than its count
\* of at least two: the record holds no failed record.  Another task group
\* case, S below N, is the one of C5.
C38_Witness ==
    \E x, y \in ReportedFailures :
        /\ x.r = y.r
        /\ EffectiveCount(x.job, x.tg) = 0
        /\ EffectiveCount(y.job, y.tg) >= 2
        /\ Successes(y.p, y.tg.Name) > EffectiveCount(y.job, y.tg)
        /\ x.r.FailedAllocsMetrics = <<>>

\* The versions handed out so far that are still on record: those the tables
\* of the state container were written under, those the goroutines hold, and
\* the refresh indexes returned to the schedulers.
IndexesOnRecord ==
    {stateIndex[t] : t \in DOMAIN stateIndex}
        \cup {index[k] : k \in JobIDs}
        \cup {result[k].RefreshIndex :
                 k \in {i \in JobIDs : "RefreshIndex" \in DOMAIN result[i]}}

(***************************************************************************)
(* C39: with RejectPlan installed as the planner, SubmitPlan rejects the   *)
(* whole plan.  The step that answers a submission leaves the allocations  *)
(* of the state container and the version they were written under as they  *)
(* were, and returns a result without node allocations whose refresh index *)
(* is a version taken from the counter in that step, one that was never    *)
(* handed out before.                                                      *)
(***************************************************************************)
C39_RejectPlanRejectsWholePlan ==
    [][\A j \in JobIDs :
          (pc[j] = "index" /\ pc'[j] # pc[j]) =>
              /\ stateAllocs' = stateAllocs
              /\ stateIndex'.allocs = stateIndex.allocs
              /\ result'[j].NodeAllocation = <<>>
              /\ result'[j].AllocIndex = 0
              /\ result'[j].RefreshIndex = nextIndex
              /\ nextIndex' = nextIndex + 1
              /\ result'[j].RefreshIndex \notin IndexesOnRecord
              /\ planLock = j /\ planLock' = 0]_vars

\* Every attempt of a job submitted a plan with placed allocations and was
\* rejected: the last answer carries the latest version, and no allocation
\* was recorded.
C39_Witness ==
    \E j \in JobIDs :
        /\ pc[j] = "update"
        /\ Cardinality(PlansOfJob(j)) = MaxPlans
        /\ \A i \in PlansOfJob(j) : \E n \in NodeIDs : Plans[i].NodeAllocation[n] # <<>>
        /\ result[j].NodeAllocation = <<>>
        /\ result[j].RefreshIndex = nextIndex - 1
        /\ stateAllocs = {}

\* The calls of h.executor.Exit made by Kill, in a history of calls.
KillExits(history) ==
    {i \in DOMAIN history : history[i].Op = "Exit" /\ history[i].By = "Kill"}

(***************************************************************************)
(* C40: Kill first asks the executor to shut down.  When doneCh is closed  *)
(* before the kill timeout elapses, whether before the select is entered   *)
(* or while Kill waits in it, Kill returns nil without calling Exit.  When *)
(* the timeout elapses with doneCh still open, Kill calls Exit and returns *)
(* what Exit returned.  Kill calls Exit in no other case.                  *)
(***************************************************************************)
C40_KillWaitsThenForces ==
    [][/\ (killpc = "idle" /\ killpc' # killpc) =>
             /\ killpc' = "select"
             /\ calls' = Append(calls, [Op |-> "ShutDown", By |-> "Kill",
                                        Err |-> "nil"])
       /\ (killpc = "select" /\ killpc' # killpc /\ doneCh = "closed") =>
             /\ killpc' = "return"
             /\ killReturn' = "nil"
             /\ calls' = calls
       /\ (killpc = "blocked" /\ timer = "running" /\ doneCh' = "closed") =>
             /\ killpc' = "done"
             /\ calls' = calls
       /\ (killpc = "done" /\ killpc' # killpc) =>
             /\ killpc' = "return"
             /\ killReturn' = "nil"
             /\ calls' = calls
       /\ (killpc = "done" /\ killpc' = killpc) => KillExits(calls') = KillExits(calls)
       /\ (killpc = "blocked" /\ timer = "running" /\ timer' = "fired") =>
             /\ doneCh = "open"
             /\ killpc' = "timeout"
       /\ (killpc = "timeout" /\ killpc' # killpc) =>
             /\ killpc' = "return"
             /\ KillExits(calls') = {Len(calls')}
             /\ killReturn' = calls'[Len(calls')].Err
       /\ KillExits(calls') # KillExits(calls) =>
             /\ killpc = "timeout"
             /\ timer = "fired"
             /\ \E i \in DOMAIN calls : calls[i].Op = "ShutDown"
       /\ killpc = "return" => killpc' = "return" /\ killReturn' = killReturn]_vars

\* doneCh was closed before the timeout elapsed and Kill returned nil; the
\* timeout elapsed afterwards, and the one call of Exit is the one run makes
\* at its end.
C40_Witness ==
    /\ killpc = "return"
    /\ killReturn = "nil"
    /\ doneCh = "closed"
    /\ timer = "fired"
    /\ runpc = "returned"
    /\ KillExits(calls) = {}
    /\ \E i \in DOMAIN calls : calls[i].Op = "Exit" /\ calls[i].By = "run"
    /\ calls[1].Op = "ShutDown"

====
